---- MODULE Spec2Model ----
(***************************************************************************)
(* A model of the agentic tool-calling loop of zesbe-go: Client.Chat and   *)
(* callAPIWithRetry (internal/ai/client.go), the tool-call codec and the   *)
(* tool dispatcher (internal/tools/executor.go) and the Anthropic agent    *)
(* loop (AnthropicClient.runAgentLoop).                                    *)
(*                                                                         *)
(* Text is a sequence of lexemes [t, v]: t is the kind of the lexeme and v *)
(* its spelling where the kind has one.  The delimiters the regular        *)
(* expressions of the codec look for ("<tool_call>", "{", "<think>", ...)  *)
(* are lexemes of their own, so a regular expression over characters is a  *)
(* pattern over lexemes.                                                   *)
(***************************************************************************)
EXTENDS Integers, Sequences, FiniteSets, TLC

\* ------------------------------------------------------------------ text

L(t, v) == [t |-> t, v |-> v]

OPEN   == L("open", "")     \* <tool_call>
CLOSE  == L("close", "")    \* </tool_call>
LB     == L("lb", "")       \* {
RB     == L("rb", "")       \* }
SP     == L("sp", "")       \* a blank
NL     == L("nl", "")       \* a line feed
THINK  == L("think", "")    \* <think>
ETHINK == L("ethink", "")   \* </think>
Txt(v) == L("txt", v)       \* plain text without markup or outer blanks
Key(v) == L("key", v)       \* "v": with the separator before it, if any
Str(v) == L("str", v)       \* the JSON string "v"
Num(v) == L("num", v)       \* the JSON number v

\* unicode.IsSpace, as \s of the patterns and strings.TrimSpace see it
IsSpace(l) == l.t \in {"sp", "nl"}

RECURSIVE SkipSpace(_, _)
\* the first index >= i of s that holds no white space (Len(s)+1 if none)
SkipSpace(s, i) ==
  IF i <= Len(s) /\ IsSpace(s[i]) THEN SkipSpace(s, i + 1) ELSE i

RECURSIVE TrimLeft(_)
TrimLeft(s) ==
  IF s # <<>> /\ IsSpace(s[1]) THEN TrimLeft(Tail(s)) ELSE s

RECURSIVE TrimRight(_)
TrimRight(s) ==
  IF s # <<>> /\ IsSpace(s[Len(s)])
  THEN TrimRight(SubSeq(s, 1, Len(s) - 1)) ELSE s

TrimSpace(s) == TrimRight(TrimLeft(s))

Min(a, b) == IF a <= b THEN a ELSE b

SetMin(S) == CHOOSE x \in S : \A y \in S : x <= y

\* The match of  <tool_call>\s*(\{.*?\})\s*</tool_call>  that starts at i:
\* [lb, rb, end] are the places of the captured braces and of the closing
\* delimiter.  .*? is lazy: the first "}" that is followed by \s*</tool_call>.
RightBraces(s, j) ==
  { k \in (j + 1)..Len(s) :
      /\ s[k] = RB
      /\ SkipSpace(s, k + 1) <= Len(s)
      /\ s[SkipSpace(s, k + 1)] = CLOSE }

HasMatchAt(s, i) ==
  /\ i <= Len(s)
  /\ s[i] = OPEN
  /\ SkipSpace(s, i + 1) <= Len(s)
  /\ s[SkipSpace(s, i + 1)] = LB
  /\ RightBraces(s, SkipSpace(s, i + 1)) # {}

MatchAt(s, i) ==
  LET j == SkipSpace(s, i + 1)
      k == SetMin(RightBraces(s, j))
  IN  [lb |-> j, rb |-> k, end |-> SkipSpace(s, k + 1)]

RECURSIVE FindAllFrom(_, _)
\* regexp.FindAllStringSubmatch(s, -1): leftmost matches, not overlapping
FindAllFrom(s, pos) ==
  LET starts == { i \in pos..Len(s) : HasMatchAt(s, i) }
  IN  IF starts = {} THEN <<>>
      ELSE LET m == MatchAt(s, SetMin(starts))
           IN  <<[start |-> SetMin(starts), lb |-> m.lb, rb |-> m.rb,
                  end |-> m.end]>> \o FindAllFrom(s, m.end + 1)

FindAllToolCalls(s) == FindAllFrom(s, 1)

\* ------------------------------------------------------------------ JSON

RECURSIVE ValueEnd(_, _), MembersEnd(_, _)
\* the index after the JSON value that starts at i, 0 if there is none
ValueEnd(s, i) ==
  IF i > Len(s) THEN 0
  ELSE IF s[i].t \in {"str", "num"} THEN i + 1
  ELSE IF s[i] = LB THEN MembersEnd(s, i + 1)
  ELSE 0

\* the index after the "}" of the object whose members start at i
MembersEnd(s, i) ==
  LET j == SkipSpace(s, i)
  IN  IF j > Len(s) THEN 0
      ELSE IF s[j] = RB THEN j + 1
      ELSE IF s[j].t = "key"
           THEN LET e == ValueEnd(s, SkipSpace(s, j + 1))
                IN  IF e = 0 THEN 0 ELSE MembersEnd(s, e)
      ELSE 0

\* json.Valid of a payload: one object and nothing after it
ValidJSON(p) == p # <<>> /\ p[1] = LB /\ ValueEnd(p, 1) = Len(p) + 1

RECURSIVE MembersFrom(_, _)
\* the members <<key, place of the value>> of the valid object whose
\* members start at i, in document order
MembersFrom(s, i) ==
  LET j == SkipSpace(s, i)
  IN  IF s[j] = RB THEN <<>>
      ELSE LET v == SkipSpace(s, j + 1)
           IN  <<[key |-> s[j].v, at |-> v]>> \o MembersFrom(s, ValueEnd(s, v))

RECURSIVE MapOf(_, _)
\* the map a member list decodes to: a later key overwrites an earlier one
MapOf(s, ms) ==
  IF ms = <<>> THEN [k \in {} |-> ""]
  ELSE LET rest == MapOf(s, SubSeq(ms, 1, Len(ms) - 1))
           m    == ms[Len(ms)]
       IN  [k \in DOMAIN rest \cup {m.key} |->
              IF k = m.key THEN s[m.at].v ELSE rest[k]]

EmptyParams == [k \in {} |-> ""]

\* ToolCall{Name, Params}
ToolCall(name, params) == [name |-> name, params |-> params]

\* call.Params[k]: the zero value "" for a key the map does not hold
Param(call, k) == IF k \in DOMAIN call.params THEN call.params[k] ELSE ""

\* json.Unmarshal(payload, &call) for ToolCall{Name string; Params
\* map[string]string}: [ok, call].  A name that is no string, a params that
\* is no object or a param value that is no string is an error.
Unmarshal(p) ==
  IF ~ValidJSON(p) THEN [ok |-> FALSE, name |-> "", params |-> EmptyParams]
  ELSE
    LET ms      == MembersFrom(p, 2)
        names   == { i \in 1..Len(ms) : ms[i].key = "name" }
        pars    == { i \in 1..Len(ms) : ms[i].key = "params" }
        namesOk == \A i \in names : p[ms[i].at].t = "str"
        parsOk  == \A i \in pars :
                     /\ p[ms[i].at] = LB
                     /\ LET inner == MembersFrom(p, ms[i].at + 1)
                        IN  \A n \in 1..Len(inner) : p[inner[n].at].t = "str"
        allPars == [n \in 1..Cardinality(pars) |->
                      CHOOSE i \in pars :
                        Cardinality({ x \in pars : x < i }) = n - 1]
        RECURSIVE Merge(_)
        Merge(n) ==
          IF n = 0 THEN EmptyParams
          ELSE LET before == Merge(n - 1)
                   here   == MapOf(p, MembersFrom(p, ms[allPars[n]].at + 1))
               IN  [k \in DOMAIN before \cup DOMAIN here |->
                      IF k \in DOMAIN here THEN here[k] ELSE before[k]]
    IN  IF ~(namesOk /\ parsOk)
        THEN [ok |-> FALSE, name |-> "", params |-> EmptyParams]
        ELSE [ok     |-> TRUE,
              name   |-> IF names = {} THEN ""
                         ELSE p[ms[CHOOSE i \in names :
                                     \A x \in names : x <= i].at].v,
              params |-> Merge(Cardinality(pars))]

\* ------------------------------------------------------------- the codec

RECURSIVE DecodeMatches(_, _)
DecodeMatches(s, ms) ==
  IF ms = <<>> THEN <<>>
  ELSE LET u == Unmarshal(SubSeq(s, ms[1].lb, ms[1].rb))
       IN  (IF u.ok THEN <<ToolCall(u.name, u.params)>> ELSE <<>>)
             \o DecodeMatches(s, Tail(ms))

\* ParseToolCalls: the calls of the matches whose payload unmarshals
ParseToolCalls(response) ==
  DecodeMatches(response, FindAllToolCalls(response))

\* re.ReplaceAllString(s, ""): s without the lexemes of the matches
RemoveMatches(s, ms) ==
  LET keep == { i \in 1..Len(s) :
                  \A n \in 1..Len(ms) : i < ms[n].start \/ i > ms[n].end }
      RECURSIVE Pick(_)
      Pick(i) == IF i > Len(s) THEN <<>>
                 ELSE (IF i \in keep THEN <<s[i]>> ELSE <<>>) \o Pick(i + 1)
  IN  Pick(1)

RECURSIVE RunLength(_, _)
RunLength(s, i) ==
  IF i <= Len(s) /\ s[i] = NL THEN 1 + RunLength(s, i + 1) ELSE 0

RECURSIVE CollapseNewlines(_, _)
\* \n{3,} replaced by two line feeds, from index i on
CollapseNewlines(s, i) ==
  IF i > Len(s) THEN <<>>
  ELSE IF s[i] = NL
       THEN LET r == RunLength(s, i)
            IN  (IF r >= 3 THEN <<NL, NL>> ELSE SubSeq(s, i, i + r - 1))
                  \o CollapseNewlines(s, i + r)
       ELSE <<s[i]>> \o CollapseNewlines(s, i + 1)

\* RemoveToolCalls: the text shown beside the tool calls of a response
RemoveToolCalls(response) ==
  TrimSpace(CollapseNewlines(
    RemoveMatches(response, FindAllToolCalls(response)), 1))

RECURSIVE ThinkBlocksFrom(_, _)
\* the matches of (?s)<think>.*?</think>
ThinkBlocksFrom(s, pos) ==
  LET starts == { i \in pos..Len(s) :
                    s[i] = THINK /\ \E j \in (i + 1)..Len(s) : s[j] = ETHINK }
  IN  IF starts = {} THEN <<>>
      ELSE LET i == SetMin(starts)
               j == SetMin({ x \in (i + 1)..Len(s) : s[x] = ETHINK })
           IN  <<[start |-> i, end |-> j]>> \o ThinkBlocksFrom(s, j + 1)

\* cleanThinkBlocks: think blocks removed, then strings.TrimSpace
cleanThinkBlocks(content) ==
  TrimSpace(RemoveMatches(content, ThinkBlocksFrom(content, 1)))

\* ------------------------------------------------- the tool dispatcher

\* ToolResult{Success, Output, Error}
ToolResult(success, output, error) ==
  [success |-> success, output |-> output, error |-> error]

Def(name, parameters) == [name |-> name, parameters |-> parameters]

\* GetToolDefinitions: the catalog, names and parameter names
GetToolDefinitions ==
  << Def("read_file", <<"path">>),
     Def("write_file", <<"path", "content">>),
     Def("edit_file", <<"path", "old_content", "new_content">>),
     Def("list_directory", <<"path">>),
     Def("create_directory", <<"path">>),
     Def("delete_file", <<"path">>),
     Def("copy_file", <<"source", "destination">>),
     Def("move_file", <<"source", "destination">>),
     Def("find_files", <<"path", "pattern">>),
     Def("grep_files", <<"path", "pattern", "file_pattern">>),
     Def("code_search", <<"path", "pattern", "language">>),
     Def("find_todos", <<"path">>),
     Def("count_lines", <<"path">>),
     Def("analyze_code", <<"path">>),
     Def("project_tree", <<"path", "depth">>),
     Def("run_command", <<"command">>),
     Def("git_status", <<>>),
     Def("git_diff", <<"staged">>),
     Def("git_log", <<"count">>),
     Def("git_branch", <<>>),
     Def("git_add", <<"files">>),
     Def("git_commit", <<"message">>),
     Def("git_push", <<"remote", "branch">>),
     Def("git_pull", <<"remote", "branch">>),
     Def("web_search", <<"query">>),
     Def("fetch_url", <<"url">>),
     Def("get_cwd", <<>>),
     Def("change_directory", <<"path">>),
     Def("system_info", <<>>) >>

\* a tools prompt that leaves the last tool of the catalog out
GetToolsPromptShort ==
  [d \in 1..(Len(GetToolDefinitions) - 1) |->
     [name |-> GetToolDefinitions[d].name,
      params |-> GetToolDefinitions[d].parameters]]

\* GetToolsPrompt: the entries it writes into the system prompt, one for
\* each tool of GetToolDefinitions with its name and its parameters
GetToolsPrompt ==
  [d \in 1..Len(GetToolDefinitions) |->
     [name |-> GetToolDefinitions[d].name,
      params |-> GetToolDefinitions[d].parameters]]

\* the operation a call is dispatched to, with its arguments
Invoke(op, args) == [op |-> op, args |-> args, error |-> ""]

\* a refusal that names no parameter
RefuseGeneric(error) ==
  [op |-> "", args |-> <<>>, error |-> "missing required parameter"]

\* a result ExecuteTool returns itself, without an operation
Refuse(error) == [op |-> "", args |-> <<>>, error |-> error]

OrDot(path) == IF path = "" THEN "." ELSE path

\* fmt.Sscanf(d, "%d", &n) on the numerals of the model: n is left as it
\* was when d is no number
Sscanf(d, n) ==
  IF d = "1" THEN 1 ELSE IF d = "2" THEN 2 ELSE IF d = "5" THEN 5 ELSE n

\* the switch of ExecuteTool: what each case does before it returns
Dispatch(call) ==
  LET P(k) == Param(call, k)
      n    == call.name
  IN  CASE n = "read_file" ->
             IF P("path") = "" THEN Refuse("path parameter required")
             ELSE Invoke("ReadFile", <<P("path")>>)
        [] n = "write_file" ->
             IF P("path") = "" THEN Refuse("path parameter required")
             ELSE Invoke("WriteFile", <<P("path"), P("content")>>)
        [] n = "edit_file" ->
             IF P("path") = "" \/ P("old_content") = ""
             THEN Refuse("path and old_content parameters required")
             ELSE Invoke("EditFile",
                         <<P("path"), P("old_content"), P("new_content")>>)
        [] n = "list_directory" ->
             Invoke("ListDirectory", <<OrDot(P("path"))>>)
        [] n = "create_directory" ->
             IF P("path") = "" THEN Refuse("path parameter required")
             ELSE Invoke("CreateDirectory", <<P("path")>>)
        [] n = "delete_file" ->
             IF P("path") = "" THEN Refuse("path parameter required")
             ELSE Invoke("DeleteFile", <<P("path")>>)
        [] n = "copy_file" ->
             IF P("source") = "" \/ P("destination") = ""
             THEN Refuse("source and destination parameters required")
             ELSE Invoke("CopyFile", <<P("source"), P("destination")>>)
        [] n = "move_file" ->
             IF P("source") = "" \/ P("destination") = ""
             THEN Refuse("source and destination parameters required")
             ELSE Invoke("MoveFile", <<P("source"), P("destination")>>)
        [] n = "find_files" ->
             Invoke("FindFiles",
                    <<OrDot(P("path")),
                      IF P("pattern") = "" THEN "*" ELSE P("pattern")>>)
        [] n = "grep_files" ->
             IF P("pattern") = "" THEN Refuse("pattern parameter required")
             ELSE Invoke("GrepFiles",
                         <<OrDot(P("path")), P("pattern"), P("file_pattern")>>)
        [] n = "code_search" ->
             IF P("pattern") = "" THEN Refuse("pattern parameter required")
             ELSE Invoke("CodeSearch",
                         <<OrDot(P("path")), P("pattern"), P("language")>>)
        [] n = "find_todos" -> Invoke("FindTodos", <<OrDot(P("path"))>>)
        [] n = "count_lines" -> Invoke("CountLines", <<OrDot(P("path"))>>)
        [] n = "analyze_code" -> Invoke("AnalyzeCode", <<OrDot(P("path"))>>)
        [] n = "project_tree" ->
             Invoke("ProjectTree",
                    <<OrDot(P("path")),
                      IF P("depth") = "" THEN 3 ELSE Sscanf(P("depth"), 3)>>)
        [] n = "run_command" ->
             IF P("command") = "" THEN Refuse("command parameter required")
             ELSE Invoke("ExecuteCommand", <<P("command"), 30>>)
        [] n = "git_status" -> Invoke("GitStatus", <<".">>)
        [] n = "git_diff" -> Invoke("GitDiff", <<".", P("staged") = "true">>)
        [] n = "git_log" ->
             Invoke("GitLog",
                    <<".", IF P("count") = "" THEN 10
                           ELSE Sscanf(P("count"), 10)>>)
        [] n = "git_branch" -> Invoke("GitBranch", <<".">>)
        [] n = "git_add" ->
             Invoke("GitAdd",
                    <<".", IF P("files") = "" THEN "." ELSE P("files")>>)
        [] n = "git_commit" ->
             IF P("message") = "" THEN Refuse("message parameter required")
             ELSE Invoke("GitCommit", <<".", P("message")>>)
        [] n = "git_push" ->
             Invoke("GitPush", <<".", P("remote"), P("branch")>>)
        [] n = "git_pull" ->
             Invoke("GitPull", <<".", P("remote"), P("branch")>>)
        [] n = "web_search" ->
             IF P("query") = "" THEN Refuse("query parameter required")
             ELSE Invoke("WebSearch", <<P("query")>>)
        [] n = "fetch_url" ->
             IF P("url") = "" THEN Refuse("url parameter required")
             ELSE Invoke("FetchURL", <<P("url")>>)
        [] n = "get_cwd" -> Invoke("GetWorkingDirectory", <<>>)
        [] n = "change_directory" ->
             IF P("path") = "" THEN Refuse("path parameter required")
             ELSE Invoke("ChangeDirectory", <<P("path")>>)
        [] n = "system_info" -> Invoke("GetSystemInfo", <<>>)
        [] OTHER -> Refuse("unknown tool: " \o n)

\* an ExecuteTool that runs into no refusal: a call without an operation
\* comes back as an empty success
ExecuteToolLenient(call, ret) ==
  IF Dispatch(call).op = "" THEN ToolResult(TRUE, <<>>, "") ELSE ret

\* ExecuteTool(call): ret is what the operation the call is dispatched to
\* returns, when there is one
ExecuteTool(call, ret) ==
  IF Dispatch(call).op = ""
  THEN ToolResult(FALSE, <<>>, Dispatch(call).error)
  ELSE ret

\* FormatToolResult: the block fed back to the model
FormatToolResult(call, result) ==
  <<L("result_open", call.name), NL>>
    \o (IF result.success THEN result.output
        ELSE <<Txt("Error: " \o result.error)>>
               \o (IF result.output # <<>>
                   THEN <<NL, Txt("Output: ")>> \o result.output
                   ELSE <<>>))
    \o <<NL, L("result_close", "")>>

\* ------------------------------------------------------- what is shown

\* detectLanguage on the paths of the model: by file extension
detectLanguage(path) == IF path = "main.go" THEN "go" ELSE ""

\* FormatToolStart: the icon and description of the tool (the indicator
\* lexeme) and the detail of the call, when it has one.  The strings of the
\* model are shorter than the lengths truncatePath/truncateString cut at.
FormatToolStart(call) ==
  LET P(k) == Param(call, k)
      n    == call.name
      details ==
        CASE n \in {"read_file", "write_file", "edit_file", "delete_file"} ->
               P("path")
          [] n = "list_directory" -> IF P("path") = "." THEN "" ELSE P("path")
          [] n = "run_command" -> P("command")
          [] n \in {"grep_files", "find_files", "code_search"} ->
               IF P("pattern") = "" THEN "" ELSE "for " \o P("pattern")
          [] n = "web_search" -> P("query")
          [] n = "git_commit" -> P("message")
          [] OTHER -> ""
  IN  <<L("indicator", n)>>
        \o (IF details # "" THEN <<SP, Txt(details)>> ELSE <<>>)

\* the size of a text in bytes: a chunk lexeme stands for 400 bytes of output
Chunk(v) == L("chunk", v)

LexBytes(l) ==
  CASE l.t = "chunk" -> 400
    [] l.t \in {"txt", "str", "num", "key"} -> Len(l.v)
    [] OTHER -> 1

RECURSIVE ByteLen(_)
ByteLen(s) == IF s = <<>> THEN 0 ELSE LexBytes(s[1]) + ByteLen(Tail(s))

RECURSIVE Slice(_, _)
\* s[:n] for a cut that falls between two lexemes
Slice(s, n) ==
  IF s = <<>> \/ LexBytes(s[1]) > n THEN <<>>
  ELSE <<s[1]>> \o Slice(Tail(s), n - LexBytes(s[1]))

\* maxLen of Chat: what is shown of an output
PreviewLen == 800

\* events that show the output of a call whole
ResultEventsUncut(call, result) ==
  IF result.success
  THEN IF result.output # <<>>
       THEN << <<L("fence", ""), NL>> \o result.output
                 \o <<NL, L("fence", ""), NL>>,
               <<L("completed", ""), NL, NL>> >>
       ELSE << <<L("completed", ""), NL, NL>> >>
  ELSE << <<L("failed", ""), Txt(result.error), NL, NL>> >>

\* what Chat sends on tokenChan for the result of a call, in order
ResultEvents(call, result) ==
  IF result.success
  THEN LET output == IF ByteLen(result.output) > PreviewLen
                     THEN Slice(result.output, PreviewLen)
                            \o <<NL, Txt("... (truncated)")>>
                     ELSE result.output
           codeType == CASE call.name = "git_diff" -> "diff"
                         [] call.name = "run_command" -> "bash"
                         [] call.name = "read_file" ->
                              IF Param(call, "path") # ""
                              THEN detectLanguage(Param(call, "path")) ELSE ""
                         [] OTHER -> ""
       IN  IF output # <<>>
           THEN << <<L("fence", codeType), NL>> \o output
                     \o <<NL, L("fence", ""), NL>>,
                   <<L("completed", ""), NL, NL>> >>
           ELSE << <<L("completed", ""), NL, NL>> >>
  ELSE << <<L("failed", ""), Txt(result.error), NL, NL>> >>

\* the notice of an exhausted loop
MaxIterationsNotice == <<NL, L("warning", "Maximum tool iterations reached.")>>

\* Message{Role, Content}
Message(role, content) == [role |-> role, content |-> content]

ContinueInstruction ==
  <<NL, NL, Txt("Now provide your response based on these results.")>>

\* the content of the synthetic user message of an iteration
ToolResultsMessage(toolResultsContent) ==
  Message("user",
          <<Txt("Tool results:"), NL>> \o toolResultsContent
            \o ContinueInstruction)

\* ------------------------------------------------- transport and retry

\* RetryConfig{MaxRetries, InitialWait, MaxWait, Multiplier}, waits in s
RetryConfig(m, i, w, x) ==
  [MaxRetries |-> m, InitialWait |-> i, MaxWait |-> w, Multiplier |-> x]

DefaultRetryConfig == RetryConfig(3, 1, 30, 2)

\* what one transport attempt meets: a 200 with the text the stream adds up
\* to, another status with its body (message: error.message of a body that
\* decodes, raw: the body as it is), or no response at all
\* A line of an event-stream body, as strings.TrimSpace leaves it:
\*   "data"  data: <JSON of a ChatResponse>, choices the contents of its
\*           choices[i].delta.content
\*   "bad"   data: <what json.Unmarshal refuses>
\*   "done"  data: [DONE]
\*   "blank" an empty line
\*   "other" a line without the prefix "data: "
Line(t, choices) == [t |-> t, choices |-> choices]
Data(content) == Line("data", <<content>>)
Done == Line("done", <<>>)
Blank == Line("blank", <<>>)

\* An event-stream body: its lines and how it ends: "newline" when the last
\* line ends with a line feed, "eof" when it does not, "reset" when the
\* read after the last line fails
Body(lines, end) == [lines |-> lines, end |-> end]

\* a response of status 200 with this body
Streamed(body) ==
  [kind |-> "http", status |-> 200, body |-> body, message |-> <<>>,
   raw |-> <<>>]

\* a response of status 200 that streams a text in one event
Ok(text) == Streamed(Body(<<Data(text), Blank, Done, Blank>>, "newline"))

RECURSIVE ReadLines(_, _, _)
\* the loop of callAPI over reader.ReadString: the lines from the i-th on
\* added to fullResponse
ReadLines(body, i, fullResponse) ==
  IF i > Len(body.lines)
  THEN IF body.end = "reset"
       THEN [response |-> <<>>,
             err |-> <<"failed to read response:", "connection reset">>]
       ELSE [response |-> fullResponse, err |-> <<>>]
  ELSE IF i = Len(body.lines) /\ body.end = "eof"
       \* ReadString returns the line with io.EOF: the loop breaks
       THEN [response |-> fullResponse, err |-> <<>>]
  ELSE LET line == body.lines[i]
       IN  IF line.t \in {"blank", "done"}
           THEN ReadLines(body, i + 1, fullResponse)
           ELSE IF line.t = "data" /\ Len(line.choices) > 0
           THEN ReadLines(body, i + 1, fullResponse \o line.choices[1])
           ELSE ReadLines(body, i + 1, fullResponse)
HTTPError(status, message, raw) ==
  [kind |-> "http", status |-> status, body |-> <<>>, message |-> message,
   raw |-> raw]
NetError(class, words) ==
  [kind |-> class, status |-> 0, body |-> <<>>, message |-> words,
   raw |-> <<>>]

\* callAPI: [response, err]; err is the text of the error, a sequence of
\* words, and <<>> is nil
callAPI(o) ==
  IF o.kind # "http"
  THEN [response |-> <<>>, err |-> <<"failed to send request:">> \o o.message]
  ELSE IF o.status # 200
  THEN [response |-> <<>>,
        err |-> <<"API error", "(", ToString(o.status), "):">>
                  \o (IF o.message # <<>> THEN o.message ELSE o.raw)]
  ELSE ReadLines(o.body, 1, <<>>)

\* strings.Contains(err.Error(), w), for a w that is a word of the model
Contains(err, w) == \E i \in 1..Len(err) : err[i] = w

isRetryableError(err) ==
  \/ Contains(err, "429")
  \/ Contains(err, "500")
  \/ Contains(err, "502")
  \/ Contains(err, "503")
  \/ Contains(err, "504")
  \/ Contains(err, "timeout")
  \/ Contains(err, "connection refused")

RECURSIVE Pow(_, _)
Pow(b, n) == IF n = 0 THEN 1 ELSE b * Pow(b, n - 1)

\* retry.NewExponential(base).Next(): base << attempt, attempt counted up
ExponentialNext(base, attempt) == base * Pow(2, attempt)

\* a WithMaxRetries that stops one retry late
MaxRetriesStopLate(max, retries) == retries > max

\* retry.WithMaxRetries(max, next): stop once max retries were handed out
MaxRetriesStop(max, retries) == retries >= max

\* retry.WithCappedDuration(cap, next)
CappedDuration(cap, val) == IF val <= 0 \/ val > cap THEN cap ELSE val

\* the state of the backoff callAPIWithRetry builds for one call
NewBackoff == [attempt |-> 0, retries |-> 0]

\* backoff.Next() of callAPIWithRetry: [stop, wait, b]
BackoffNext(cfg, b) ==
  IF MaxRetriesStop(cfg.MaxRetries, b.retries)
  THEN [stop |-> TRUE, wait |-> 0, b |-> b]
  ELSE [stop |-> FALSE,
        wait |-> CappedDuration(cfg.MaxWait,
                                ExponentialNext(cfg.InitialWait, b.attempt)),
        b    |-> [attempt |-> b.attempt + 1, retries |-> b.retries + 1]]

\* ------------------------------------------------------------ the bounds

\* turns a client is given
MaxTurns == 2
\* a further turn starts only on a history of at most this many messages
MaxHistory == 3
\* iterations of a turn in which the model and the tools answer freely;
\* in later iterations the model answers with a final response or with the
\* one-call response, the tool with its short output, and a transport
\* attempt that fails meets the 401
MaxFreeLoops == 1
\* the largest MaxRetries SetRetryConfig is given
MaxRetriesBound == 3

\* ------------------------------------------------- the model's answers

SystemPrompt == <<Txt("You are Zesbe")>>

UserMessages == { <<Txt("list files")>> }

CallBlock(name, params) ==
  <<OPEN, NL, LB, Key("name"), Str(name), Key("params"), LB>> \o params
    \o <<RB, RB, NL, CLOSE>>

\* a final answer with a think block before it
RThink == <<THINK, Txt("plan"), ETHINK, NL, Txt("All done.")>>
\* a final answer that is plain text
RPlain == <<Txt("Here you go.")>>
\* a block that matches the pattern and does not unmarshal
RBroken == <<Txt("Trying."), NL, OPEN, LB, Txt("oops"), RB, CLOSE>>
\* one call, with text before it
ROne ==
  <<Txt("Let me look."), NL, NL>>
    \o CallBlock("list_directory", <<Key("path"), Str(".")>>)
\* three calls: a file read, an unknown tool, a read without its path
RMany ==
  CallBlock("read_file", <<Key("path"), Str("main.go")>>) \o <<NL>>
    \o CallBlock("frobnicate", <<>>) \o <<NL>>
    \o CallBlock("read_file", <<>>)

FinalResponses == {RThink, RPlain, RBroken}

Responses(k) ==
  IF k < MaxFreeLoops THEN FinalResponses \cup {ROne, RMany}
  ELSE {RThink, RPlain, ROne}

\* what the operation behind a tool may return
ShortOutput == <<Txt("main.go"), NL, Txt("go.mod")>>
LongOutput  == <<Chunk("a"), Chunk("b"), Chunk("c")>>

ToolReturns(k) ==
  IF k < MaxFreeLoops
  THEN { ToolResult(TRUE, ShortOutput, ""),
         ToolResult(TRUE, LongOutput, ""),
         ToolResult(FALSE, <<>>, "permission denied") }
  ELSE { ToolResult(TRUE, ShortOutput, "") }

\* the failures a transport attempt of the loop may meet
LoopFailures(k) ==
  IF k < MaxFreeLoops
  THEN { HTTPError(503, <<"overloaded">>, <<>>),
         HTTPError(401, <<"invalid", "api", "key">>, <<>>) }
  ELSE { HTTPError(401, <<"invalid", "api", "key">>, <<>>) }

\* ------------------------------------------------------------- the state

VARIABLES
  messages,            \* c.messages
  retryConfig,         \* c.retryConfig
  totalRequests,       \* c.stats.TotalRequests
  totalErrors,         \* c.stats.TotalErrors
  pc,                  \* where the task of the turn stands
  userMessage,         \* the argument of Chat
  loop,                \* the loop variable of Chat
  response,            \* response of the iteration
  toolCalls,           \* toolCalls of the iteration
  idx,                 \* the place in toolCalls of the call at hand
  result,              \* result of the call at hand
  toolResultsContent,  \* the builder of the iteration
  backoff,             \* the backoff of the callAPIWithRetry at hand
  lastRequest,         \* reqBody.Messages of the latest transport attempt
  tokenChan,           \* what was sent on tokenChan in this turn, in order
  errChan,             \* what was sent on errChan in this turn
  tokenClosed,         \* close(tokenChan) has run
  errClosed,           \* close(errChan) has run
  turns,               \* Chat calls so far
  turnStart,           \* history when the turn began
  iters,               \* the completed iterations of the turn
  results,             \* the calls executed in this iteration, each with its
                       \* result and the operation it ran ("": none)
  attempts,            \* what the attempts of the call at hand met
  waits,               \* the sleeps between the attempts of the call at hand
  calls,               \* callAPIWithRetry calls of the turn
  trace,               \* the steps of the turn, in order
  mark,                \* what tokenChan had been sent when the iteration began
  failedAt,            \* history when a turn last sent an error
  prevFailed,          \* <<the history the turn before this one sent its
                       \* error on>>, <<>> when it sent none
  lastOp,              \* the method of the client that was called last and
                       \* the history it was called on
  streaming,           \* m.streaming of the program's Model
  uiPc,                \* where the poll of the stream (checkStreamMsg) stands
  uiMessages,          \* m.messages: the transcript the program shows
  streamingText,       \* m.streamingText
  tokenRead,           \* how many of tokenChan's values have been received
  errRead,             \* how many of errChan's values have been received
  stopped,             \* the consumer of the channels has stopped receiving
  abortAt,             \* <<what the turn had done when its abort was asked>>,
                       \* <<>> when it was not
  rateLimiter,         \* c.rateLimiter
  clock,               \* seconds since the bucket was first left empty, -1
                       \* before that
  admitted,            \* the calls the limiter has admitted since then
  config,              \* c.config, which is m.config of the program
  sent,                \* the transport attempts (callAPI) of the turn
  failed,              \* those of them that returned an error
  statsStart           \* <<TotalRequests, TotalErrors>> when the turn began

client == <<messages, retryConfig, totalRequests, totalErrors>>
task   == <<pc, userMessage, loop, response, toolCalls, idx, result,
            toolResultsContent, backoff, lastRequest>>
chans  == <<tokenChan, errChan, tokenClosed, errClosed>>
ghost  == <<turns, turnStart, iters, results, attempts, waits, calls, trace,
            mark, failedAt, prevFailed>>
ui     == <<streaming, uiPc, uiMessages, streamingText, tokenRead, errRead,
            stopped, abortAt>>
limiter == <<rateLimiter, clock, admitted>>
counts == <<sent, failed, statsStart>>
vars   == <<client, task, chans, ghost, lastOp, ui, limiter, config, counts>>

\* again: the call before it was of the same method
Called(op, before) == [op |-> op, before |-> before, again |-> FALSE]

\* getRateLimitForProvider: "requests per minute" of a provider
getRateLimitForProvider(provider) ==
  CASE provider = "openai" -> 60
    [] provider = "anthropic" -> 50
    [] provider = "google" -> 60
    [] provider = "groq" -> 30
    [] provider = "minimax" -> 100
    [] provider = "deepseek" -> 60
    [] provider = "ollama" -> 1000
    [] OTHER -> 30

\* rate.NewLimiter(r, b): r events a second into a bucket of b tokens that
\* starts full
NewLimiter(r, b) == [limit |-> r, burst |-> b, tokens |-> b]

\* the limiter NewClient makes for cfg.Provider
LimiterOf(provider) ==
  LET rps == getRateLimitForProvider(provider)
  IN  NewLimiter(rps, rps * 2)

\* config.Load with no configuration file: the default provider
Load == config = [Provider |-> "minimax"]

\* the limiter of a client of the provider of the configuration
NewRateLimiter ==
  /\ rateLimiter = LimiterOf(config.Provider)
  /\ clock = -1
  /\ admitted = 0

\* the capacity of tokenChan
TokenCapacity == 100

\* n sends on tokenChan go through: the channel has room for them.  A send
\* on a full channel blocks until a value is received.
CanSend(n) == Len(tokenChan) - tokenRead + n <= TokenCapacity

\* New(cfg) of the program: nothing streams and the transcript is empty
New ==
  /\ streaming = FALSE
  /\ uiPc = "idle"
  /\ uiMessages = <<>>
  /\ streamingText = <<>>
  /\ tokenRead = 0
  /\ errRead = 0
  /\ stopped = FALSE
  /\ abortAt = <<>>

\* maxToolLoops of NewClient
maxToolLoops == 10

NoResult == ToolResult(FALSE, <<>>, "")

Step(op, k, i) == [op |-> op, loop |-> k, idx |-> i]

\* NewClient(cfg), cfg.SystemPrompt empty
Init ==
  /\ messages = <<Message("system", SystemPrompt)>>
  /\ retryConfig = DefaultRetryConfig
  /\ totalRequests = 0
  /\ totalErrors = 0
  /\ pc = "idle"
  /\ userMessage = <<>>
  /\ loop = 0
  /\ response = <<>>
  /\ toolCalls = <<>>
  /\ idx = 0
  /\ result = NoResult
  /\ toolResultsContent = <<>>
  /\ backoff = NewBackoff
  /\ lastRequest = <<>>
  /\ tokenChan = <<>>
  /\ errChan = <<>>
  /\ tokenClosed = FALSE
  /\ errClosed = FALSE
  /\ turns = 0
  /\ turnStart = <<>>
  /\ iters = <<>>
  /\ results = <<>>
  /\ attempts = <<>>
  /\ waits = <<>>
  /\ calls = 0
  /\ trace = <<>>
  /\ mark = 0
  /\ failedAt = <<>>
  /\ prevFailed = <<>>
  /\ New
  /\ Load
  /\ NewRateLimiter
  /\ sent = 0
  /\ failed = 0
  /\ statsStart = <<0, 0>>
  /\ lastOp = Called("NewClient", <<>>)

\* Chat(userMessage): the channels are made and the task is started.  The
\* caller starts no turn while one is in flight.
Chat(m) ==
  /\ pc = "idle"
  /\ turns < MaxTurns
  /\ Len(messages) <= MaxHistory
  /\ pc' = "spawned"
  /\ userMessage' = m
  /\ tokenChan' = <<>>
  /\ errChan' = <<>>
  /\ tokenClosed' = FALSE
  /\ errClosed' = FALSE
  /\ turns' = turns + 1
  /\ turnStart' = messages
  /\ iters' = <<>>
  /\ results' = <<>>
  /\ attempts' = <<>>
  /\ waits' = <<>>
  /\ calls' = 0
  /\ trace' = <<>>
  /\ prevFailed' = (IF errChan # <<>> THEN <<failedAt>> ELSE <<>>)
  /\ mark' = 0
  /\ UNCHANGED <<client, loop, response, toolCalls, idx, result,
                 toolResultsContent, backoff, lastRequest, failedAt>>
  /\ lastOp' = Called("Chat", messages)
  /\ sent' = 0
  /\ failed' = 0
  /\ statsStart' = <<totalRequests, totalErrors>>
  /\ UNCHANGED <<ui, limiter, config>>

\* the task: the user message joins the history
AppendUser ==
  /\ pc = "spawned"
  /\ messages' = Append(messages, Message("user", userMessage))
  /\ loop' = 0
  /\ pc' = "loop"
  /\ UNCHANGED <<retryConfig, totalRequests, totalErrors, userMessage,
                 response, toolCalls, idx, result, toolResultsContent,
                 backoff, lastRequest, chans, ghost>>
  /\ UNCHANGED <<ui, limiter, lastOp, config, counts>>

\* a loop head that compares with <=
LoopHeadInclusive ==
  /\ pc = "loop"
  /\ loop <= maxToolLoops
  /\ backoff' = NewBackoff
  /\ attempts' = <<>>
  /\ waits' = <<>>
  /\ calls' = calls + 1
  /\ trace' = Append(trace, Step("model", loop, 0))
  /\ mark' = Len(tokenChan)
  /\ pc' = "call"
  /\ UNCHANGED <<client, userMessage, loop, response, toolCalls, idx, result,
                 toolResultsContent, lastRequest, chans, turns, turnStart,
                 iters, results, failedAt, prevFailed>>
  /\ UNCHANGED <<ui, limiter, lastOp, config, counts>>

\* a loop head whose call goes on with the retries the turn has used
LoopHeadTurnBudget ==
  /\ pc = "loop"
  /\ loop < maxToolLoops
  /\ backoff' = [attempt |-> failed, retries |-> failed]
  /\ attempts' = <<>>
  /\ waits' = <<>>
  /\ calls' = calls + 1
  /\ trace' = Append(trace, Step("model", loop, 0))
  /\ mark' = Len(tokenChan)
  /\ pc' = "call"
  /\ UNCHANGED <<client, userMessage, loop, response, toolCalls, idx, result,
                 toolResultsContent, lastRequest, chans, turns, turnStart,
                 iters, results, failedAt, prevFailed>>
  /\ UNCHANGED <<ui, limiter, lastOp, config, counts>>

\* loop < maxToolLoops: rateLimiter.Wait returns (the context is never
\* cancelled and the burst is at least one) and callAPIWithRetry is entered
LoopHead ==
  /\ pc = "loop"
  /\ loop < maxToolLoops
  /\ backoff' = NewBackoff
  /\ attempts' = <<>>
  /\ waits' = <<>>
  /\ calls' = calls + 1
  /\ trace' = Append(trace, Step("model", loop, 0))
  /\ mark' = Len(tokenChan)
  /\ pc' = "call"
  /\ UNCHANGED <<client, userMessage, loop, response, toolCalls, idx, result,
                 toolResultsContent, lastRequest, chans, turns, turnStart,
                 iters, results, failedAt, prevFailed>>
  /\ UNCHANGED <<ui, limiter, lastOp, config, counts>>

\* the loop ran out: the notice, and the task returns
LoopExhausted ==
  /\ pc = "loop"
  /\ loop >= maxToolLoops
  /\ CanSend(1)
  /\ tokenChan' = Append(tokenChan, MaxIterationsNotice)
  /\ trace' = Append(trace, Step("warn", loop, 0))
  /\ pc' = "return"
  /\ UNCHANGED <<client, userMessage, loop, response, toolCalls, idx, result,
                 toolResultsContent, backoff, lastRequest, errChan,
                 tokenClosed, errClosed, turns, turnStart, iters, results,
                 attempts, waits, calls, mark, failedAt, prevFailed>>
  /\ UNCHANGED <<ui, limiter, lastOp, config, counts>>

\* an attempt of callAPIWithRetry that succeeds: retry.Do returns nil
AttemptOk(o) ==
  /\ pc = "call"
  /\ callAPI(o).err = <<>>
  /\ lastRequest' = messages
  /\ attempts' = Append(attempts, o)
  /\ response' = callAPI(o).response
  /\ pc' = "called"
  /\ UNCHANGED <<client, userMessage, loop, toolCalls, idx, result,
                 toolResultsContent, backoff, chans, turns, turnStart, iters,
                 results, waits, calls, trace, mark, failedAt, prevFailed>>
  /\ sent' = sent + 1
  /\ UNCHANGED <<ui, limiter, lastOp, config, failed, statsStart>>

\* callAPIWithRetry has returned a response: the statistics are updated
\* and the response is parsed
Parse ==
  /\ pc = "called"
  /\ totalRequests' = totalRequests + 1
  /\ toolCalls' = ParseToolCalls(response)
  /\ idx' = 1
  /\ toolResultsContent' = <<>>
  /\ results' = <<>>
  /\ backoff' = NewBackoff
  /\ attempts' = <<>>
  /\ waits' = <<>>
  /\ pc' = "respond"
  /\ UNCHANGED <<messages, retryConfig, totalErrors, userMessage, loop,
                 response, result, lastRequest, chans, turns, turnStart,
                 iters, calls, trace, mark, failedAt, prevFailed>>
  /\ UNCHANGED <<ui, limiter, lastOp, config, counts>>

\* an attempt that fails with an error that is retried: the backoff sleep
AttemptRetry(o) ==
  /\ pc = "call"
  /\ callAPI(o).err # <<>>
  /\ isRetryableError(callAPI(o).err)
  /\ ~BackoffNext(retryConfig, backoff).stop
  /\ lastRequest' = messages
  /\ attempts' = Append(attempts, o)
  /\ waits' = Append(waits, BackoffNext(retryConfig, backoff).wait)
  /\ backoff' = BackoffNext(retryConfig, backoff).b
  /\ UNCHANGED <<client, pc, userMessage, loop, response, toolCalls, idx,
                 result, toolResultsContent, chans, turns, turnStart, iters,
                 results, calls, trace, mark, failedAt, prevFailed>>
  /\ sent' = sent + 1
  /\ failed' = failed + 1
  /\ UNCHANGED <<ui, limiter, lastOp, config, statsStart>>

\* a failure that also takes the user message of the turn back
AttemptFailRollback(o) ==
  /\ pc = "call"
  /\ callAPI(o).err # <<>>
  /\ \/ ~isRetryableError(callAPI(o).err)
     \/ BackoffNext(retryConfig, backoff).stop
  /\ lastRequest' = messages
  /\ attempts' = Append(attempts, o)
  /\ totalErrors' = totalErrors + 1
  /\ errChan' = Append(errChan, callAPI(o).err)
  /\ trace' = Append(trace, Step("error", loop, 0))
  /\ messages' = SubSeq(messages, 1, Len(turnStart))
  /\ failedAt' = messages'
  /\ pc' = "return"
  /\ UNCHANGED <<retryConfig, totalRequests, userMessage, loop,
                 response, toolCalls, idx, result, toolResultsContent,
                 backoff, tokenChan, tokenClosed, errClosed, turns,
                 turnStart, iters, results, waits, calls, mark, prevFailed>>
  /\ sent' = sent + 1
  /\ failed' = failed + 1
  /\ UNCHANGED <<ui, limiter, lastOp, config, statsStart>>

\* an attempt whose error ends the call: the error goes to errChan
AttemptFail(o) ==
  /\ pc = "call"
  /\ callAPI(o).err # <<>>
  /\ \/ ~isRetryableError(callAPI(o).err)
     \/ BackoffNext(retryConfig, backoff).stop
  /\ lastRequest' = messages
  /\ attempts' = Append(attempts, o)
  /\ totalErrors' = totalErrors + 1
  /\ errChan' = Append(errChan, callAPI(o).err)
  /\ trace' = Append(trace, Step("error", loop, 0))
  /\ failedAt' = messages
  /\ pc' = "return"
  /\ UNCHANGED <<messages, retryConfig, totalRequests, userMessage, loop,
                 response, toolCalls, idx, result, toolResultsContent,
                 backoff, tokenChan, tokenClosed, errClosed, turns,
                 turnStart, iters, results, waits, calls, mark, prevFailed>>
  /\ sent' = sent + 1
  /\ failed' = failed + 1
  /\ UNCHANGED <<ui, limiter, lastOp, config, statsStart>>

\* no tool call was extracted: the cleaned response is sent
SendFinal ==
  /\ pc = "respond"
  /\ Len(toolCalls) = 0
  /\ CanSend(1)
  /\ tokenChan' = Append(tokenChan, cleanThinkBlocks(response))
  /\ trace' = Append(trace, Step("final", loop, 0))
  /\ pc' = "appendFinal"
  /\ UNCHANGED <<client, userMessage, loop, response, toolCalls, idx, result,
                 toolResultsContent, backoff, lastRequest, errChan,
                 tokenClosed, errClosed, turns, turnStart, iters, results,
                 attempts, waits, calls, mark, failedAt, prevFailed>>
  /\ UNCHANGED <<ui, limiter, lastOp, config, counts>>

\* a final step that puts the text it has shown into the history
AppendFinalShown ==
  /\ pc = "appendFinal"
  /\ messages' = Append(messages,
                        Message("assistant", cleanThinkBlocks(response)))
  /\ pc' = "return"
  /\ UNCHANGED <<retryConfig, totalRequests, totalErrors, userMessage, loop,
                 response, toolCalls, idx, result, toolResultsContent,
                 backoff, lastRequest, chans, ghost>>
  /\ UNCHANGED <<ui, limiter, lastOp, config, counts>>

\* ... and the response joins the history; the task returns
AppendFinal ==
  /\ pc = "appendFinal"
  /\ messages' = Append(messages, Message("assistant", response))
  /\ pc' = "return"
  /\ UNCHANGED <<retryConfig, totalRequests, totalErrors, userMessage, loop,
                 response, toolCalls, idx, result, toolResultsContent,
                 backoff, lastRequest, chans, ghost>>
  /\ UNCHANGED <<ui, limiter, lastOp, config, counts>>

\* tool calls were extracted: the text beside them is sent, if there is any
SendPreamble ==
  /\ pc = "respond"
  /\ Len(toolCalls) # 0
  /\ LET displayResponse == cleanThinkBlocks(RemoveToolCalls(response))
     IN  IF displayResponse # <<>>
         THEN /\ CanSend(1)
              /\ tokenChan' = Append(tokenChan, displayResponse \o <<NL, NL>>)
              /\ trace' = Append(trace, Step("text", loop, 0))
         ELSE UNCHANGED <<tokenChan, trace>>
  /\ pc' = "toolStart"
  /\ UNCHANGED <<client, userMessage, loop, response, toolCalls, idx, result,
                 toolResultsContent, backoff, lastRequest, errChan,
                 tokenClosed, errClosed, turns, turnStart, iters, results,
                 attempts, waits, calls, mark, failedAt, prevFailed>>
  /\ UNCHANGED <<ui, limiter, lastOp, config, counts>>

\* the indicator of the call at hand
ToolStart ==
  /\ pc = "toolStart"
  /\ CanSend(1)
  /\ tokenChan' = Append(tokenChan, FormatToolStart(toolCalls[idx]) \o <<NL>>)
  /\ trace' = Append(trace, Step("start", loop, idx))
  /\ pc' = "toolExec"
  /\ UNCHANGED <<client, userMessage, loop, response, toolCalls, idx, result,
                 toolResultsContent, backoff, lastRequest, errChan,
                 tokenClosed, errClosed, turns, turnStart, iters, results,
                 attempts, waits, calls, mark, failedAt, prevFailed>>
  /\ UNCHANGED <<ui, limiter, lastOp, config, counts>>

\* ExecuteTool on the call at hand; its formatted result joins the builder
ToolExec(ret) ==
  /\ pc = "toolExec"
  /\ result' = ExecuteTool(toolCalls[idx], ret)
  /\ toolResultsContent' =
       toolResultsContent \o FormatToolResult(toolCalls[idx], result')
         \o <<NL, NL>>
  /\ results' = Append(results, [call   |-> toolCalls[idx],
                                 result |-> result',
                                 op     |-> Dispatch(toolCalls[idx]).op])
  /\ trace' = Append(trace, Step("exec", loop, idx))
  /\ pc' = "toolReport"
  /\ UNCHANGED <<client, userMessage, loop, response, toolCalls, idx,
                 backoff, lastRequest, chans, turns, turnStart, iters,
                 attempts, waits, calls, mark, failedAt, prevFailed>>
  /\ UNCHANGED <<ui, limiter, lastOp, config, counts>>

\* a report after which the next call runs without its indicator
ToolReportNoIndicator ==
  /\ pc = "toolReport"
  /\ tokenChan' = tokenChan \o ResultEvents(toolCalls[idx], result)
  /\ trace' = Append(trace, Step("report", loop, idx))
  /\ IF idx < Len(toolCalls)
     THEN idx' = idx + 1 /\ pc' = "toolExec"
     ELSE idx' = idx /\ pc' = "appendResults"
  /\ UNCHANGED <<client, userMessage, loop, response, toolCalls, result,
                 toolResultsContent, backoff, lastRequest, errChan,
                 tokenClosed, errClosed, turns, turnStart, iters, results,
                 attempts, waits, calls, mark, failedAt, prevFailed>>
  /\ UNCHANGED <<ui, limiter, lastOp, config, counts>>

\* what is shown of the result; then the next call, or the end of the batch
ToolReport ==
  /\ pc = "toolReport"
  /\ CanSend(Len(ResultEvents(toolCalls[idx], result)))
  /\ tokenChan' = tokenChan \o ResultEvents(toolCalls[idx], result)
  /\ trace' = Append(trace, Step("report", loop, idx))
  /\ IF idx < Len(toolCalls)
     THEN idx' = idx + 1 /\ pc' = "toolStart"
     ELSE idx' = idx /\ pc' = "appendResults"
  /\ UNCHANGED <<client, userMessage, loop, response, toolCalls, result,
                 toolResultsContent, backoff, lastRequest, errChan,
                 tokenClosed, errClosed, turns, turnStart, iters, results,
                 attempts, waits, calls, mark, failedAt, prevFailed>>
  /\ UNCHANGED <<ui, limiter, lastOp, config, counts>>

\* an append that keeps the text shown in place of the response
AppendResultsShown ==
  /\ pc = "appendResults"
  /\ messages' = messages \o <<Message("assistant", RemoveToolCalls(response)),
                               ToolResultsMessage(toolResultsContent)>>
  /\ iters' = Append(iters, [response |-> response, results |-> results])
  /\ loop' = loop + 1
  /\ pc' = "loop"
  /\ UNCHANGED <<retryConfig, totalRequests, totalErrors, userMessage,
                 response, toolCalls, idx, result, toolResultsContent,
                 backoff, lastRequest, chans, turns, turnStart, results,
                 attempts, waits, calls, trace, mark, failedAt, prevFailed>>
  /\ UNCHANGED <<ui, limiter, lastOp, config, counts>>

\* the response and the tool results join the history; next iteration
AppendResults ==
  /\ pc = "appendResults"
  /\ messages' = messages \o <<Message("assistant", response),
                               ToolResultsMessage(toolResultsContent)>>
  /\ iters' = Append(iters, [response |-> response, results |-> results])
  /\ loop' = loop + 1
  /\ pc' = "loop"
  /\ UNCHANGED <<retryConfig, totalRequests, totalErrors, userMessage,
                 response, toolCalls, idx, result, toolResultsContent,
                 backoff, lastRequest, chans, turns, turnStart, results,
                 attempts, waits, calls, trace, mark, failedAt, prevFailed>>
  /\ UNCHANGED <<ui, limiter, lastOp, config, counts>>

\* the deferred close(errChan)
CloseErr ==
  /\ pc = "return"
  /\ errClosed' = TRUE
  /\ pc' = "closing"
  /\ UNCHANGED <<client, userMessage, loop, response, toolCalls, idx, result,
                 toolResultsContent, backoff, lastRequest, tokenChan,
                 errChan, tokenClosed, ghost>>
  /\ UNCHANGED <<ui, limiter, lastOp, config, counts>>

\* a task that returns and leaves tokenChan open
CloseTokenLeftOpen ==
  /\ pc = "closing"
  /\ pc' = "idle"
  /\ UNCHANGED <<client, userMessage, loop, response, toolCalls, idx, result,
                 toolResultsContent, backoff, lastRequest, chans, ghost>>
  /\ UNCHANGED <<ui, limiter, lastOp, config, counts>>

\* the deferred close(tokenChan): the turn is over
CloseToken ==
  /\ pc = "closing"
  /\ tokenClosed' = TRUE
  /\ pc' = "idle"
  /\ UNCHANGED <<client, userMessage, loop, response, toolCalls, idx, result,
                 toolResultsContent, backoff, lastRequest, tokenChan,
                 errChan, errClosed, ghost>>
  /\ UNCHANGED <<ui, limiter, lastOp, config, counts>>

\* the operation behind the call at hand returns, when it has one
Returns ==
  IF pc # "toolExec" THEN {}
  ELSE IF Dispatch(toolCalls[idx]).op = "" THEN {NoResult}
  ELSE ToolReturns(loop)

Next ==
  \/ \E m \in UserMessages : Chat(m)
  \/ AppendUser
  \/ LoopHead
  \/ LoopExhausted
  \/ \E r \in Responses(loop) : AttemptOk(Ok(r))
  \/ Parse
  \/ \E o \in LoopFailures(loop) : AttemptRetry(o)
  \/ \E o \in LoopFailures(loop) : AttemptFail(o)
  \/ SendFinal
  \/ AppendFinal
  \/ SendPreamble
  \/ ToolStart
  \/ \E ret \in Returns : ToolExec(ret)
  \/ ToolReport
  \/ AppendResults
  \/ CloseErr
  \/ CloseToken

Spec == Init /\ [][Next]_vars

\* ------------------------------------------- one call of any tool

\* the value a call gives a parameter
ArgValue(p) ==
  CASE p \in {"depth", "count"} -> "2"
    [] p = "staged" -> "true"
    [] p = "path" -> "main.go"
    [] OTHER -> "x"

\* how a call may treat a parameter
Givings == {"absent", "empty", "given"}

RECURSIVE ParamLexemes(_, _, _)
\* the members of params for the parameters ps from the i-th on, given as g
ParamLexemes(ps, g, i) ==
  IF i > Len(ps) THEN <<>>
  ELSE (CASE g[i] = "absent" -> <<>>
          [] g[i] = "empty" -> <<Key(ps[i]), Str("")>>
          [] OTHER -> <<Key(ps[i]), Str(ArgValue(ps[i]))>>)
         \o ParamLexemes(ps, g, i + 1)

\* the responses with one call: every tool of the catalog with every way
\* of giving its parameters, and a tool the catalog does not have
ToolResponses ==
  UNION { { CallBlock(GetToolDefinitions[d].name,
                      ParamLexemes(GetToolDefinitions[d].parameters, g, 1)) :
              g \in [1..Len(GetToolDefinitions[d].parameters) -> Givings] } :
          d \in 1..Len(GetToolDefinitions) }
    \cup { CallBlock("frobnicate", <<Key("path"), Str("main.go")>>) }

\* the first turn of a client, its first response parsed
InitTool ==
  /\ messages = <<Message("system", SystemPrompt),
                  Message("user", <<Txt("list files")>>)>>
  /\ retryConfig = DefaultRetryConfig
  /\ totalRequests = 1
  /\ totalErrors = 0
  /\ pc = "respond"
  /\ userMessage = <<Txt("list files")>>
  /\ loop = 0
  /\ response \in ToolResponses
  /\ toolCalls = ParseToolCalls(response)
  /\ idx = 1
  /\ result = NoResult
  /\ toolResultsContent = <<>>
  /\ backoff = NewBackoff
  /\ lastRequest = messages
  /\ tokenChan = <<>>
  /\ errChan = <<>>
  /\ tokenClosed = FALSE
  /\ errClosed = FALSE
  /\ turns = 1
  /\ turnStart = <<Message("system", SystemPrompt)>>
  /\ iters = <<>>
  /\ results = <<>>
  /\ attempts = <<>>
  /\ waits = <<>>
  /\ calls = 1
  /\ trace = <<Step("model", 0, 0)>>
  /\ mark = 0
  /\ failedAt = <<>>
  /\ prevFailed = <<>>
  /\ New
  /\ Load
  /\ NewRateLimiter
  /\ sent = 1
  /\ failed = 0
  /\ statsStart = <<0, 0>>
  /\ lastOp = Called("NewClient", <<>>)

NextTool ==
  \/ SendPreamble
  \/ ToolStart
  \/ \E ret \in Returns : ToolExec(ret)
  \/ ToolReport
  \/ AppendResults

SpecTool == InitTool /\ [][NextTool]_vars

\* ------------------------------------------- one call under any policy

\* the policies SetRetryConfig is given
RetryConfigs ==
  { RetryConfig(m, c[1], c[2], c[3]) :
      m \in 0..MaxRetriesBound, c \in {<<1, 30, 2>>, <<1, 30, 3>>, <<2, 3, 2>>} }

\* the failures a transport attempt may meet
AllFailures ==
  { HTTPError(st, <<"overloaded">>, <<>>) : st \in {429, 500, 502, 503, 504} }
    \cup
  { HTTPError(400, <<"max_tokens", "above", "500">>, <<>>),
    HTTPError(401, <<"invalid", "api", "key">>, <<>>),
    HTTPError(404, <<>>, <<"not", "found">>),
    NetError("refused", <<"dial tcp", "connect:", "connection refused">>),
    NetError("timeout", <<"dial tcp", "i/o", "timeout">>),
    NetError("timeout", <<"context deadline exceeded",
                          "(Client.Timeout exceeded while awaiting headers)">>),
    NetError("dns", <<"dial tcp", "lookup", "no such host">>) }

\* SetRetryConfig(cfg), between turns
SetRetryConfig(cfg) ==
  /\ pc = "idle"
  /\ turns = 0
  /\ retryConfig' = cfg
  /\ UNCHANGED <<messages, totalRequests, totalErrors, task, chans, ghost>>
  /\ UNCHANGED <<ui, limiter, lastOp, config, counts>>

\* a client given a policy, and the first model call of its first turn
NextRetry ==
  \/ \E cfg \in RetryConfigs : SetRetryConfig(cfg)
  \/ \E m \in UserMessages : Chat(m)
  \/ AppendUser
  \/ LoopHead /\ loop = 0
  \/ AttemptOk(Ok(RPlain))
  \/ \E o \in AllFailures : AttemptRetry(o)
  \/ \E o \in AllFailures : AttemptFail(o)

SpecRetry == Init /\ [][NextRetry]_vars

\* --------------------------------------------- properties of one call

\* the attempts of the call at hand that met a failure
AttemptFailed(i) == callAPI(attempts[i]).err # <<>>

\* ... and a failure the wrapper retries
AttemptRetryable(i) ==
  AttemptFailed(i) /\ isRetryableError(callAPI(attempts[i]).err)

\* the statuses the attempts of the call at hand met (0: no response)
AttemptStatuses == [i \in 1..Len(attempts) |-> attempts[i].status]

\* C6: under max_retries = m a model call makes at most m + 1 attempts; an
\* attempt that succeeds after k <= m retryable failures ends the call with
\* its response after these k + 1 attempts; a retryable failure with
\* retries left keeps the call going; the (m + 1)-th failure in a row ends
\* the call with that failure and nothing is attempted after it.
RetryBudget ==
  LET n == Len(attempts)
      m == retryConfig.MaxRetries
  IN  /\ n <= m + 1
      /\ \A i \in 1..(n - 1) : AttemptRetryable(i)
      /\ (n > 0 /\ ~AttemptFailed(n)) =>
            /\ pc = "called"
            /\ response = callAPI(attempts[n]).response
            /\ errChan = <<>>
      /\ (n > 0 /\ AttemptRetryable(n) /\ n <= m) =>
            /\ pc = "call"
            /\ Len(waits) = n
            /\ errChan = <<>>
      /\ (n = m + 1 /\ AttemptFailed(n)) =>
            /\ pc = "return"
            /\ Len(waits) = m
            /\ errChan = <<callAPI(attempts[n]).err>>

\* C6, its case: four 503 in a row under max_retries = 3 have ended the call
RetryBudgetSpent ==
  /\ retryConfig.MaxRetries = 3
  /\ AttemptStatuses = <<503, 503, 503, 503>>
  /\ pc = "return"
  /\ errChan # <<>>

\* C7: the wait before retry n + 1 is
\* min(initial_wait * multiplier^n, max_wait), whatever the multiplier.
WaitsFollowMultiplier ==
  \A n \in 1..Len(waits) :
    waits[n] = Min(retryConfig.InitialWait
                     * Pow(retryConfig.Multiplier, n - 1),
                   retryConfig.MaxWait)

\* the classes of failure that are to be retried: the five statuses, a
\* transport timeout, a refused connection
RetryableClass(o) ==
  \/ o.kind = "http" /\ o.status \in {429, 500, 502, 503, 504}
  \/ o.kind \in {"timeout", "refused"}

\* C8: a failure is retried exactly when its class is one of the five
\* statuses, a transport timeout or a refused connection; a failure of any
\* other class, whatever its text, ends the call at once.
RetriedIffRetryableClass ==
  LET n == Len(attempts)
  IN  /\ \A i \in 1..(n - 1) : RetryableClass(attempts[i])
      /\ (n > 0 /\ AttemptFailed(n) /\ ~RetryableClass(attempts[n])) =>
            pc = "return"
      /\ (n > 0 /\ RetryableClass(attempts[n])
             /\ n <= retryConfig.MaxRetries) =>
            pc = "call"

\* ------------------------------------------------ the Anthropic loop
\* AnthropicClient keeps its history in messages (c.history; the system
\* prompt is no part of it), its iteration in loop, the response of
\* CreateMessages in response and the tool-use blocks in toolCalls.  The
\* positions of its task begin with "a:".

\* maxIterations of runAgentLoop
maxIterations == 10

\* a tool-use block {ID, Name, Input}: Input maps keys to JSON values
ToolUse(id, name, input) == [id |-> id, name |-> name, input |-> input]

\* a response of CreateMessages: the text of its text blocks, its tool-use
\* blocks and its stop reason
Created(text, toolUse, stop) ==
  [text |-> text, toolUse |-> toolUse, stop |-> stop]

NoInput == [k \in {} |-> Str("")]

\* the answer that ends a turn
AText == Created(<<Txt("Here you go.")>>, <<>>, "end_turn")
\* one tool use, with text before it
AOne ==
  Created(<<Txt("Let me look.")>>,
          <<ToolUse("tu1", "list_directory", [k \in {"path"} |-> Str(".")])>>,
          "tool_use")
\* two tool uses without text: one with a number for a value, one unknown
ATwo ==
  Created(<<>>,
          <<ToolUse("tu1", "git_log", [k \in {"count"} |-> Num("5")]),
            ToolUse("tu2", "frobnicate", NoInput)>>,
          "tool_use")
\* a tool use in a response that stopped at max_tokens
ACut ==
  Created(<<Txt("Let me look.")>>,
          <<ToolUse("tu1", "list_directory", [k \in {"path"} |-> Str(".")])>>,
          "max_tokens")

CreatedResponses(k) ==
  IF k < MaxFreeLoops THEN {AText, AOne, ATwo, ACut} ELSE {AText, AOne, ACut}

\* the error of a CreateMessages that fails
CreateFailures == { <<"anthropic:", "overloaded_error">> }

\* the ToolCall of a tool-use block: a value that is no string is printed
ToolCallOf(toolUse) ==
  ToolCall(toolUse.name, [k \in DOMAIN toolUse.input |-> toolUse.input[k].v])

\* resultContent of a result
ResultContent(res) ==
  IF res.success
  THEN IF ByteLen(res.output) > 4000
       THEN Slice(res.output, 4000) \o <<NL, Txt("... (truncated)")>>
       ELSE res.output
  ELSE <<Txt("Error: " \o res.error)>>

\* what runAgentLoop sends on tokenChan for a result
ResultEvent(res) ==
  IF res.success
  THEN <<L("success", ""), NL, L("fence", ""), NL>>
         \o (IF ByteLen(ResultContent(res)) > 500
             THEN Slice(ResultContent(res), 500) \o <<Txt("...")>>
             ELSE ResultContent(res))
         \o <<NL, L("fence", ""), NL, NL>>
  ELSE <<L("error", ""), Txt(res.error), NL, NL>>

\* NewToolResultMessageContent(id, content, false)
ToolResultContent(id, content) ==
  [id |-> id, content |-> content, isError |-> FALSE]

ReachedMaximumNotice ==
  <<NL, NL, L("warning", "Reached maximum tool iterations. Stopping."), NL>>

\* NewAnthropicClient
InitAnthropic ==
  /\ messages = <<>>
  /\ retryConfig = DefaultRetryConfig
  /\ totalRequests = 0
  /\ totalErrors = 0
  /\ pc = "a:idle"
  /\ userMessage = <<>>
  /\ loop = 0
  /\ response = Created(<<>>, <<>>, "")
  /\ toolCalls = <<>>
  /\ idx = 0
  /\ result = NoResult
  /\ toolResultsContent = <<>>
  /\ backoff = NewBackoff
  /\ lastRequest = <<>>
  /\ tokenChan = <<>>
  /\ errChan = <<>>
  /\ tokenClosed = FALSE
  /\ errClosed = FALSE
  /\ turns = 0
  /\ turnStart = <<>>
  /\ iters = <<>>
  /\ results = <<>>
  /\ attempts = <<>>
  /\ waits = <<>>
  /\ calls = 0
  /\ trace = <<>>
  /\ mark = 0
  /\ failedAt = <<>>
  /\ prevFailed = <<>>
  /\ New
  /\ Load
  /\ NewRateLimiter
  /\ sent = 0
  /\ failed = 0
  /\ statsStart = <<0, 0>>
  /\ lastOp = Called("NewClient", <<>>)

\* ChatStream(userMessage): the channels are made and the task is started
ChatStream(m) ==
  /\ pc = "a:idle"
  /\ turns < MaxTurns
  /\ Len(messages) <= MaxHistory
  /\ pc' = "a:spawned"
  /\ userMessage' = m
  /\ tokenChan' = <<>>
  /\ errChan' = <<>>
  /\ tokenClosed' = FALSE
  /\ errClosed' = FALSE
  /\ turns' = turns + 1
  /\ turnStart' = messages
  /\ iters' = <<>>
  /\ results' = <<>>
  /\ calls' = 0
  /\ trace' = <<>>
  /\ mark' = 0
  /\ UNCHANGED <<client, loop, response, toolCalls, idx, result,
                 toolResultsContent, backoff, lastRequest, attempts, waits,
                 failedAt, prevFailed>>
  /\ lastOp' = Called("ChatStream", messages)
  /\ UNCHANGED <<ui, limiter, config, counts>>

\* the task: the user message joins the history, runAgentLoop is entered
StreamAppendUser ==
  /\ pc = "a:spawned"
  /\ messages' = Append(messages, Message("user", userMessage))
  /\ loop' = 0
  /\ pc' = "a:loop"
  /\ UNCHANGED <<retryConfig, totalRequests, totalErrors, userMessage,
                 response, toolCalls, idx, result, toolResultsContent,
                 backoff, lastRequest, chans, ghost>>
  /\ UNCHANGED <<ui, limiter, lastOp, config, counts>>

\* iteration < maxIterations: iteration++ and CreateMessages is called
AgentLoopHead ==
  /\ pc = "a:loop"
  /\ loop < maxIterations
  /\ loop' = loop + 1
  /\ calls' = calls + 1
  /\ lastRequest' = messages
  /\ trace' = Append(trace, Step("model", loop', 0))
  /\ mark' = Len(tokenChan)
  /\ pc' = "a:call"
  /\ UNCHANGED <<client, userMessage, response, toolCalls, idx, result,
                 toolResultsContent, backoff, chans, turns, turnStart, iters,
                 results, attempts, waits, failedAt, prevFailed>>
  /\ UNCHANGED <<ui, limiter, lastOp, config, counts>>

\* the loop ran out: the notice, and the task returns
AgentLoopExhausted ==
  /\ pc = "a:loop"
  /\ loop >= maxIterations
  /\ tokenChan' = Append(tokenChan, ReachedMaximumNotice)
  /\ trace' = Append(trace, Step("warn", loop, 0))
  /\ pc' = "a:return"
  /\ UNCHANGED <<client, userMessage, loop, response, toolCalls, idx, result,
                 toolResultsContent, backoff, lastRequest, errChan,
                 tokenClosed, errClosed, turns, turnStart, iters, results,
                 attempts, waits, calls, mark, failedAt, prevFailed>>
  /\ UNCHANGED <<ui, limiter, lastOp, config, counts>>

\* CreateMessages returns a response: its blocks are sorted
CreateMessagesOk(r) ==
  /\ pc = "a:call"
  /\ response' = r
  /\ toolCalls' = r.toolUse
  /\ pc' = "a:respond"
  /\ UNCHANGED <<client, userMessage, loop, idx, result, toolResultsContent,
                 backoff, lastRequest, chans, ghost>>
  /\ UNCHANGED <<ui, limiter, lastOp, config, counts>>

\* CreateMessages returns an error: it goes to errChan, the task returns
CreateMessagesFail(e) ==
  /\ pc = "a:call"
  /\ errChan' = Append(errChan, e)
  /\ trace' = Append(trace, Step("error", loop, 0))
  /\ failedAt' = messages
  /\ pc' = "a:return"
  /\ UNCHANGED <<client, userMessage, loop, response, toolCalls, idx, result,
                 toolResultsContent, backoff, lastRequest, tokenChan,
                 tokenClosed, errClosed, turns, turnStart, iters, results,
                 attempts, waits, calls, mark, prevFailed>>
  /\ UNCHANGED <<ui, limiter, lastOp, config, counts>>

\* the text of the response is sent, if there is any; then the loop ends
\* unless there are tool-use blocks and the response stopped for tool use
SendText ==
  /\ pc = "a:respond"
  /\ IF response.text # <<>>
     THEN /\ tokenChan' = Append(tokenChan, response.text)
          /\ trace' = Append(trace, Step("text", loop, 0))
     ELSE UNCHANGED <<tokenChan, trace>>
  /\ pc' = (IF Len(toolCalls) = 0 \/ response.stop # "tool_use"
            THEN "a:final" ELSE "a:assistant")
  /\ UNCHANGED <<client, userMessage, loop, response, toolCalls, idx, result,
                 toolResultsContent, backoff, lastRequest, errChan,
                 tokenClosed, errClosed, turns, turnStart, iters, results,
                 attempts, waits, calls, mark, failedAt, prevFailed>>
  /\ UNCHANGED <<ui, limiter, lastOp, config, counts>>

\* the response joins the history and the task returns
StreamAppendFinal ==
  /\ pc = "a:final"
  /\ messages' = Append(messages,
                        Message("assistant",
                                [text |-> response.text,
                                 toolUse |-> response.toolUse]))
  /\ pc' = "a:return"
  /\ UNCHANGED <<retryConfig, totalRequests, totalErrors, userMessage, loop,
                 response, toolCalls, idx, result, toolResultsContent,
                 backoff, lastRequest, chans, ghost>>
  /\ UNCHANGED <<ui, limiter, lastOp, config, counts>>

\* the response joins the history before its tools run
AppendAssistant ==
  /\ pc = "a:assistant"
  /\ messages' = Append(messages,
                        Message("assistant",
                                [text |-> response.text,
                                 toolUse |-> response.toolUse]))
  /\ idx' = 1
  /\ toolResultsContent' = <<>>
  /\ results' = <<>>
  /\ pc' = "a:toolStart"
  /\ UNCHANGED <<retryConfig, totalRequests, totalErrors, userMessage, loop,
                 response, toolCalls, result, backoff, lastRequest, chans,
                 turns, turnStart, iters, attempts, waits, calls, trace,
                 mark, failedAt, prevFailed>>
  /\ UNCHANGED <<ui, limiter, lastOp, config, counts>>

\* the indicator of the tool use at hand
ExecutingIndicator ==
  /\ pc = "a:toolStart"
  /\ tokenChan' = Append(tokenChan,
                         <<NL, NL, L("executing", toolCalls[idx].name), NL>>)
  /\ trace' = Append(trace, Step("start", loop, idx))
  /\ pc' = "a:toolExec"
  /\ UNCHANGED <<client, userMessage, loop, response, toolCalls, idx, result,
                 toolResultsContent, backoff, lastRequest, errChan,
                 tokenClosed, errClosed, turns, turnStart, iters, results,
                 attempts, waits, calls, mark, failedAt, prevFailed>>
  /\ UNCHANGED <<ui, limiter, lastOp, config, counts>>

\* ExecuteTool on the tool use at hand
StreamToolExec(ret) ==
  /\ pc = "a:toolExec"
  /\ result' = ExecuteTool(ToolCallOf(toolCalls[idx]), ret)
  /\ results' = Append(results,
                       [call   |-> ToolCallOf(toolCalls[idx]),
                        result |-> result',
                        op     |-> Dispatch(ToolCallOf(toolCalls[idx])).op])
  /\ trace' = Append(trace, Step("exec", loop, idx))
  /\ pc' = "a:toolReport"
  /\ UNCHANGED <<client, userMessage, loop, response, toolCalls, idx,
                 toolResultsContent, backoff, lastRequest, chans, turns,
                 turnStart, iters, attempts, waits, calls, mark, failedAt,
                 prevFailed>>
  /\ UNCHANGED <<ui, limiter, lastOp, config, counts>>

\* what is shown of the result, and the tool result of the tool use
StreamToolReport ==
  /\ pc = "a:toolReport"
  /\ tokenChan' = Append(tokenChan, ResultEvent(result))
  /\ toolResultsContent' =
       Append(toolResultsContent,
              ToolResultContent(toolCalls[idx].id, ResultContent(result)))
  /\ trace' = Append(trace, Step("report", loop, idx))
  /\ IF idx < Len(toolCalls)
     THEN idx' = idx + 1 /\ pc' = "a:toolStart"
     ELSE idx' = idx /\ pc' = "a:appendResults"
  /\ UNCHANGED <<client, userMessage, loop, response, toolCalls, result,
                 backoff, lastRequest, errChan, tokenClosed, errClosed,
                 turns, turnStart, iters, results, attempts, waits, calls,
                 mark, failedAt, prevFailed>>
  /\ UNCHANGED <<ui, limiter, lastOp, config, counts>>

\* the tool results join the history as a user message; next iteration
StreamAppendResults ==
  /\ pc = "a:appendResults"
  /\ messages' = Append(messages, Message("user", toolResultsContent))
  /\ iters' = Append(iters, [response |-> response, results |-> results])
  /\ pc' = "a:loop"
  /\ UNCHANGED <<retryConfig, totalRequests, totalErrors, userMessage, loop,
                 response, toolCalls, idx, result, toolResultsContent,
                 backoff, lastRequest, chans, turns, turnStart, results,
                 attempts, waits, calls, trace, mark, failedAt, prevFailed>>
  /\ UNCHANGED <<ui, limiter, lastOp, config, counts>>

\* the deferred close(errChan)
StreamCloseErr ==
  /\ pc = "a:return"
  /\ errClosed' = TRUE
  /\ pc' = "a:closing"
  /\ UNCHANGED <<client, userMessage, loop, response, toolCalls, idx, result,
                 toolResultsContent, backoff, lastRequest, tokenChan,
                 errChan, tokenClosed, ghost>>
  /\ UNCHANGED <<ui, limiter, lastOp, config, counts>>

\* the deferred close(tokenChan): the turn is over
StreamCloseToken ==
  /\ pc = "a:closing"
  /\ tokenClosed' = TRUE
  /\ pc' = "a:idle"
  /\ UNCHANGED <<client, userMessage, loop, response, toolCalls, idx, result,
                 toolResultsContent, backoff, lastRequest, tokenChan,
                 errChan, errClosed, ghost>>
  /\ UNCHANGED <<ui, limiter, lastOp, config, counts>>

\* the operation behind the tool use at hand returns, when it has one
StreamReturns ==
  IF pc # "a:toolExec" THEN {}
  ELSE IF Dispatch(ToolCallOf(toolCalls[idx])).op = "" THEN {NoResult}
  ELSE ToolReturns(loop - 1)

NextAnthropic ==
  \/ \E m \in UserMessages : ChatStream(m)
  \/ StreamAppendUser
  \/ AgentLoopHead
  \/ AgentLoopExhausted
  \/ \E r \in CreatedResponses(loop - 1) : CreateMessagesOk(r)
  \/ \E e \in CreateFailures : CreateMessagesFail(e)
  \/ SendText
  \/ StreamAppendFinal
  \/ AppendAssistant
  \/ ExecutingIndicator
  \/ \E ret \in StreamReturns : StreamToolExec(ret)
  \/ StreamToolReport
  \/ StreamAppendResults
  \/ StreamCloseErr
  \/ StreamCloseToken

\* a client of either kind
SpecLoops == (Init \/ InitAnthropic) /\ [][Next \/ NextAnthropic]_vars

\* ------------------------------------------------- properties of a turn

Ended == pc \in {"return", "closing", "idle"}

\* a turn has begun and its user message is in the history
InTurn == turns > 0 /\ pc # "spawned"

\* the response at hand carried no tool call and the loop has acted on it
NoCallsAnswered ==
  /\ InTurn
  /\ pc \in {"appendFinal", "return", "closing", "idle"}
  /\ errChan = <<>>
  /\ loop < maxToolLoops
  /\ ParseToolCalls(response) = <<>>

LastToken == tokenChan[Len(tokenChan)]

RECURSIVE FormattedResults(_)
\* the blocks of the results rs, in order
FormattedResults(rs) ==
  IF rs = <<>> THEN <<>>
  ELSE FormatToolResult(rs[1].call, rs[1].result) \o <<NL, NL>>
         \o FormattedResults(Tail(rs))

RECURSIVE IterMessages(_)
\* the two messages of each of the iterations its, in order
IterMessages(its) ==
  IF its = <<>> THEN <<>>
  ELSE << Message("assistant", its[1].response),
          Message("user", <<Txt("Tool results:"), NL>>
                            \o FormattedResults(its[1].results)
                            \o ContinueInstruction) >>
         \o IterMessages(Tail(its))

\* the history of the turn: what it began with, its user message, the pairs
\* of its completed iterations
TurnHistory ==
  turnStart \o <<Message("user", userMessage)>> \o IterMessages(iters)

StreamEnded == pc \in {"a:return", "a:closing", "a:idle"}

\* Chat at the end of a turn of maxToolLoops iterations: that many model
\* calls, the tools of every response executed, the notice as the last
\* event, no error, the tool results of the last iteration as the last
\* message
ChatExhausted ==
  (Ended /\ loop = maxToolLoops) =>
    /\ calls = maxToolLoops
    /\ Len(iters) = maxToolLoops
    /\ \A k \in 1..Len(iters) :
         Len(iters[k].results) = Len(ParseToolCalls(iters[k].response))
    /\ LastToken = MaxIterationsNotice
    /\ errChan = <<>>
    /\ messages = TurnHistory
    /\ messages[Len(messages)].role = "user"

\* runAgentLoop at the end of a turn of maxIterations iterations, likewise
StreamExhausted ==
  (StreamEnded /\ Len(iters) = maxIterations) =>
    /\ calls = maxIterations
    /\ \A k \in 1..Len(iters) :
         Len(iters[k].results) = Len(iters[k].response.toolUse)
    /\ LastToken = ReachedMaximumNotice
    /\ errChan = <<>>
    /\ Len(messages) = Len(turnStart) + 1 + 2 * maxIterations
    /\ messages[Len(messages)] = Message("user", toolResultsContent)

\* a turn of Chat that ended without an error on a response with tool calls
\* ended because the loop ran out
ChatRunsToTheLimit ==
  (Ended /\ InTurn /\ errChan = <<>> /\ ParseToolCalls(response) # <<>>) =>
    loop = maxToolLoops

StreamTenCallsSeen ==
  /\ pc = "a:idle"
  /\ tokenClosed
  /\ calls = 10
  /\ Len(iters) = 10
  /\ LastToken = ReachedMaximumNotice

\* C2: a response without tool calls is emitted unchanged as the one event
\* of its iteration, the same text joins the history as one assistant
\* message, no model call follows and no error is sent.
FinalTextUnchanged ==
  NoCallsAnswered =>
    /\ Len(tokenChan) = mark + 1
    /\ LastToken = response
    /\ calls = loop + 1
    /\ Ended => messages = lastRequest \o <<Message("assistant", response)>>

\* C2, as the loop has it: what is emitted, as the one event of the
\* iteration, is the response without its think blocks and without the
\* blanks around it; the history gets the response as the model gave it, as
\* one assistant message; no model call follows and no error is sent.
FinalTextCleaned ==
  NoCallsAnswered =>
    /\ Len(tokenChan) = mark + 1
    /\ LastToken = cleanThinkBlocks(response)
    /\ \A i \in 1..Len(LastToken) : LastToken[i] \notin {THINK, ETHINK}
    /\ LastToken # <<>> => ~IsSpace(LastToken[1])
                            /\ ~IsSpace(LastToken[Len(LastToken)])
    /\ calls = loop + 1
    /\ Ended => messages = lastRequest \o <<Message("assistant", response)>>

\* C2, its case: the answer with a think block has ended a turn
FinalTextCleanedSeen ==
  /\ pc = "idle"
  /\ tokenClosed
  /\ response = RThink
  /\ tokenChan = << <<Txt("All done.")>> >>
  /\ errChan = <<>>
  /\ messages[Len(messages)] = Message("assistant", RThink)

\* the calls of the results rs
CallsOf(rs) == [i \in 1..Len(rs) |-> rs[i].call]

\* every completed iteration has left its two messages in the history: the
\* response with its markup, then the results of its calls, one block a call
\* and in the order of the calls, with the instruction to go on.  (iters
\* only grows, so the calls of an iteration are compared with its response
\* when the iteration is the latest.)
PairsAppended ==
  InTurn =>
    LET th == TurnHistory
    IN  /\ Len(iters) = loop
        /\ Len(messages) >= Len(th)
        /\ SubSeq(messages, 1, Len(th)) = th
        /\ pc = "loop" => messages = th
        /\ pc = "appendResults" =>
             /\ CallsOf(results) = ParseToolCalls(response)
             /\ Len(results) >= 1
        /\ (pc = "loop" /\ loop >= 1) =>
             /\ CallsOf(iters[loop].results)
                  = ParseToolCalls(iters[loop].response)
             /\ messages[Len(messages) - 1]
                  = Message("assistant", iters[loop].response)
             /\ messages[Len(messages)].role = "user"
        /\ \A k \in 1..Len(iters) :
             /\ Len(iters[k].results) >= 1
             /\ \E i \in 1..Len(iters[k].response) :
                  iters[k].response[i] = OPEN

\* the model call of an iteration carries the history as it then is
RequestCarriesHistory ==
  (pc \in {"call", "called"} /\ attempts # <<>>) => lastRequest = messages

\* C3: an iteration with calls appends its two messages, the next model
\* call is issued with that history, and a response without tool calls then
\* ends the turn with its text as the last event.
PairThenNextCall ==
  /\ PairsAppended
  /\ RequestCarriesHistory
  /\ (pc = "loop" /\ loop >= 1) => loop < maxToolLoops
  /\ (NoCallsAnswered /\ loop >= 1) => LastToken = response

\* C3, as the loop has it: an iteration with calls appends its two
\* messages; unless it was the maxToolLoops-th, the next model call is
\* issued with that history, and after the maxToolLoops-th the notice is
\* emitted and no call is issued; a response without tool calls then ends
\* the turn with its text, think blocks and outer blanks removed, as the
\* last event.
PairThenNextCallOrNotice ==
  /\ PairsAppended
  /\ RequestCarriesHistory
  /\ InTurn => calls = (IF pc = "loop" THEN loop
                        ELSE Min(loop + 1, maxToolLoops))
  /\ (Ended /\ loop = maxToolLoops) => LastToken = MaxIterationsNotice
  /\ (NoCallsAnswered /\ loop >= 1) => LastToken = cleanThinkBlocks(response)

\* C3, its case: three calls, then the answer with a think block
PairThenFinalSeen ==
  /\ pc = "idle"
  /\ Len(iters) = 1
  /\ iters[1].response = RMany
  /\ Len(iters[1].results) = 3
  /\ response = RThink
  /\ LastToken = <<Txt("All done.")>>
  /\ Len(messages) = Len(turnStart) + 4

\* the place of a step within its call
Rank(op) ==
  CASE op \in {"model", "warn"} -> 0
    [] op \in {"text", "final", "error", "start"} -> 1
    [] op = "exec" -> 2
    [] OTHER -> 3

\* step a comes before step b in the order iteration, call, place
Before(a, b) ==
  \/ a.loop < b.loop
  \/ a.loop = b.loop /\ a.idx < b.idx
  \/ a.loop = b.loop /\ a.idx = b.idx /\ Rank(a.op) < Rank(b.op)

\* C4: the calls of a response are executed one at a time in the order of
\* the document: the indicator of a call is emitted before the call runs,
\* its outcome is emitted before the indicator of the next call, no two
\* calls of a turn overlap, and what iteration k emits comes before what
\* iteration k + 1 emits.  (trace only grows, so its latest steps are what
\* a state has to answer for.)
CallsRunInOrder ==
  /\ \A p \in 1..Len(trace) :
       p >= Len(trace) - 1 =>
         /\ p < Len(trace) => Before(trace[p], trace[p + 1])
         /\ trace[p].op = "exec" =>
              /\ p > 1
              /\ trace[p - 1] = Step("start", trace[p].loop, trace[p].idx)
              /\ p < Len(trace) =>
                   trace[p + 1] = Step("report", trace[p].loop, trace[p].idx)
         /\ (trace[p].op = "start" /\ trace[p].idx > 1) =>
              trace[p - 1] = Step("report", trace[p].loop, trace[p].idx - 1)
         /\ trace[p].op = "report" =>
              trace[p - 1] = Step("exec", trace[p].loop, trace[p].idx)
  /\ pc \in {"toolStart", "toolExec", "toolReport", "appendResults"} =>
       \A i \in 1..Len(results) :
         results[i].call = ParseToolCalls(response)[i]
  /\ pc = "toolExec" => Len(results) = idx - 1
  /\ pc = "toolReport" => Len(results) = idx

\* C4, its case: two of the three calls of a response have run and been
\* reported, the indicator of the third is out and the third is about to run
CallsRunInOrderSeen ==
  /\ response = RMany
  /\ pc = "toolExec"
  /\ idx = 3
  /\ Len(results) = 2
  /\ SubSeq(trace, Len(trace) - 6, Len(trace))
       = << Step("start", loop, 1), Step("exec", loop, 1),
            Step("report", loop, 1), Step("start", loop, 2),
            Step("exec", loop, 2), Step("report", loop, 2),
            Step("start", loop, 3) >>

\* C5: a model call that fails in iteration k sends exactly one error and
\* ends the turn: no model call and no tool execution follows, the history
\* is what the turn began with, its user message and the pairs of the k - 1
\* completed iterations, and the next turn begins on that history.
FailedCallEndsTurn ==
  /\ Len(errChan) <= 1
  /\ errChan # <<>> =>
       /\ Ended
       /\ trace[Len(trace)] = Step("error", loop, 0)
       /\ \A p \in 1..(Len(trace) - 1) : trace[p].op # "error"
       /\ calls = loop + 1
       /\ Len(iters) = loop
       /\ messages = TurnHistory
       /\ messages[Len(turnStart) + 1] = Message("user", userMessage)
       /\ failedAt = messages
  /\ prevFailed # <<>> =>
       /\ turnStart = prevFailed[1]
       /\ pc = "spawned" => messages = prevFailed[1]
       /\ pc # "spawned" =>
            SubSeq(messages, 1, Len(prevFailed[1]) + 1)
              = prevFailed[1] \o <<Message("user", userMessage)>>

\* C5, its case: a turn after a failed one has itself failed in its second
\* iteration
FailedCallEndsTurnSeen ==
  /\ prevFailed # <<>>
  /\ errChan # <<>>
  /\ loop = 1
  /\ pc = "idle"
  /\ tokenClosed

\* ------------------------------------------- properties of the dispatcher

ToolNames ==
  { GetToolDefinitions[d].name : d \in 1..Len(GetToolDefinitions) }

\* the parameters the catalog gives the tool n
ParametersOf(n) ==
  LET d == CHOOSE x \in 1..Len(GetToolDefinitions) :
             GetToolDefinitions[x].name = n
  IN  { GetToolDefinitions[d].parameters[i] :
          i \in 1..Len(GetToolDefinitions[d].parameters) }

\* the parameters of its tool a call leaves out or leaves empty
Missing(call) == { q \in ParametersOf(call.name) : Param(call, q) = "" }

\* the block b stands in the text s
HasBlock(s, b) ==
  \E i \in 1..(Len(s) - Len(b) + 1) : SubSeq(s, i, i + Len(b) - 1) = b

\* what is fed back for a call of the unknown tool n
UnknownToolBlock(n) ==
  << L("result_open", n), NL, Txt("Error: unknown tool: " \o n), NL,
     L("result_close", "") >>

AskedFor ==
  { <<"read_file", "path">>, <<"write_file", "path">>,
    <<"create_directory", "path">>, <<"delete_file", "path">>,
    <<"change_directory", "path">>, <<"grep_files", "pattern">>,
    <<"code_search", "pattern">>, <<"run_command", "command">>,
    <<"git_commit", "message">>, <<"web_search", "query">>,
    <<"fetch_url", "url">> }

\* the parameters the dispatcher asks for in pairs, and the error it gives
AskedForPair(n) ==
  CASE n = "edit_file" -> {"path", "old_content"}
    [] n \in {"copy_file", "move_file"} -> {"source", "destination"}
    [] OTHER -> {}

PairError(n) ==
  IF n = "edit_file" THEN "path and old_content parameters required"
  ELSE "source and destination parameters required"

GoodRead   == CallBlock("read_file", <<Key("path"), Str("main.go")>>)
GoodList   == CallBlock("list_directory", <<Key("path"), Str(".")>>)
\* a payload that is an object of the schema with a number in params
NumberArg  == CallBlock("git_log", <<Key("count"), Num("5")>>)
\* a payload in braces that is no JSON
NotJSON    == <<OPEN, LB, Txt("oops"), RB, CLOSE>>
\* a payload whose closing brace is missing
Unclosed   == <<OPEN, LB, Key("name"), Str("read_file"), CLOSE>>
\* a payload without braces
Bare       == <<OPEN, Txt("read_file main.go"), CLOSE>>
Prose      == <<Txt("Let me look.")>>
BlankLines == <<NL, NL, NL>>

Pieces ==
  {GoodRead, GoodList, NumberArg, NotJSON, Unclosed, Bare, Prose, BlankLines}

\* the texts of up to three pieces
CodecTexts ==
  Pieces \cup { a \o b : a \in Pieces, b \in Pieces }
    \cup { a \o b \o c : a \in Pieces, b \in Pieces, c \in Pieces }

\* the first turn of a client, its first response received
InitCodec ==
  /\ messages = <<Message("system", SystemPrompt),
                  Message("user", <<Txt("list files")>>)>>
  /\ retryConfig = DefaultRetryConfig
  /\ totalRequests = 0
  /\ totalErrors = 0
  /\ pc = "called"
  /\ userMessage = <<Txt("list files")>>
  /\ loop = 0
  /\ response \in CodecTexts
  /\ toolCalls = <<>>
  /\ idx = 0
  /\ result = NoResult
  /\ toolResultsContent = <<>>
  /\ backoff = NewBackoff
  /\ lastRequest = messages
  /\ tokenChan = <<>>
  /\ errChan = <<>>
  /\ tokenClosed = FALSE
  /\ errClosed = FALSE
  /\ turns = 1
  /\ turnStart = <<Message("system", SystemPrompt)>>
  /\ iters = <<>>
  /\ results = <<>>
  /\ attempts = <<Ok(response)>>
  /\ waits = <<>>
  /\ calls = 1
  /\ trace = <<Step("model", 0, 0)>>
  /\ mark = 0
  /\ failedAt = <<>>
  /\ prevFailed = <<>>
  /\ New
  /\ Load
  /\ NewRateLimiter
  /\ sent = 1
  /\ failed = 0
  /\ statsStart = <<0, 0>>
  /\ lastOp = Called("NewClient", <<>>)

NextCodec ==
  \/ Parse
  \/ SendFinal
  \/ SendPreamble

SpecCodec == InitCodec /\ [][NextCodec]_vars

\* ------------------------------------------------- claims on the codec

RECURSIVE BlocksFrom(_, _)
\* the blocks of a text from pos on: each <tool_call> with the nearest
\* </tool_call> after it; [open, close] are the places of the delimiters
BlocksFrom(s, pos) ==
  LET opens == { i \in pos..Len(s) :
                   s[i] = OPEN /\ \E j \in (i + 1)..Len(s) : s[j] = CLOSE }
  IN  IF opens = {} THEN <<>>
      ELSE LET i == SetMin(opens)
               j == SetMin({ n \in (i + 1)..Len(s) : s[n] = CLOSE })
           IN  <<[open |-> i, close |-> j]>> \o BlocksFrom(s, j + 1)

Blocks(s) == BlocksFrom(s, 1)

\* the payload of a block, without the white space around it
Payload(s, b) == TrimSpace(SubSeq(s, b.open + 1, b.close - 1))

\* a block is well formed when its payload decodes as a ToolCall
WellFormed(s, b) == Unmarshal(Payload(s, b)).ok

RECURSIVE CallsOfBlocks(_, _)
CallsOfBlocks(s, bs) ==
  IF bs = <<>> THEN <<>>
  ELSE (IF WellFormed(s, bs[1])
        THEN LET u == Unmarshal(Payload(s, bs[1]))
             IN  <<ToolCall(u.name, u.params)>>
        ELSE <<>>) \o CallsOfBlocks(s, Tail(bs))

\* the calls of the well-formed blocks of a text, in document order
WellFormedCalls(s) == CallsOfBlocks(s, Blocks(s))

\* the response of the state has been parsed
Parsed == pc \in {"respond", "appendFinal", "toolStart"}

\* C11: ParseToolCalls returns the calls of exactly the well-formed blocks of
\* the response, in document order: as many calls as well-formed blocks, and
\* no well-formed block is lost to a malformed block before, between or
\* after well-formed ones.
ParsedAreTheWellFormed ==
  Parsed => toolCalls = WellFormedCalls(response)

\* the payload of a block is a JSON object with a string name and an object
\* params, whatever the values in params are
OfTheSchema(s, b) ==
  LET p == Payload(s, b)
  IN  /\ ValidJSON(p)
      /\ LET ms == MembersFrom(p, 2)
         IN  /\ \E i \in 1..Len(ms) : ms[i].key = "name"
             /\ \E i \in 1..Len(ms) : ms[i].key = "params"
             /\ \A i \in 1..Len(ms) :
                  /\ ms[i].key = "name" => p[ms[i].at].t = "str"
                  /\ ms[i].key = "params" => p[ms[i].at] = LB

\* the name and the params a payload of the schema spells out, each value
\* by its spelling
SpelledOut(s, b) ==
  LET p  == Payload(s, b)
      ms == MembersFrom(p, 2)
      n  == CHOOSE i \in 1..Len(ms) : ms[i].key = "name"
      q  == CHOOSE i \in 1..Len(ms) : ms[i].key = "params"
  IN  ToolCall(p[ms[n].at].v, MapOf(p, MembersFrom(p, ms[q].at + 1)))

\* C12: when the payload of every block of the response is a JSON object with
\* a name and a params object, whatever the types of the values in params,
\* the i-th call ParseToolCalls returns has the name and the params of the
\* i-th block, and no block is dropped.
EveryPayloadOfTheSchemaParsed ==
  LET bs == Blocks(response)
  IN  (Parsed /\ \A i \in 1..Len(bs) : OfTheSchema(response, bs[i]))
        => /\ Len(toolCalls) = Len(bs)
           /\ \A i \in 1..Len(bs) : toolCalls[i] = SpelledOut(response, bs[i])

\* the text Chat shows beside the calls of the response
Stripped == RemoveToolCalls(response)

\* C13: the text RemoveToolCalls returns for a response with tool-call
\* blocks holds no <tool_call> and no </tool_call>, no three line feeds in
\* a row, and no white space at either end.
StrippedIsClean ==
  pc = "toolStart" =>
    /\ \A i \in 1..Len(Stripped) : Stripped[i] \notin {OPEN, CLOSE}
    /\ \A i \in 1..Len(Stripped) : RunLength(Stripped, i) < 3
    /\ Stripped = TrimSpace(Stripped)

\* ------------------------------------------- the methods on the history

\* a ClearHistory that empties the history
ClearHistoryAll ==
  /\ pc = "idle"
  /\ messages' = <<>>
  /\ lastOp' = [Called("ClearHistory", messages)
                  EXCEPT !.again = (lastOp.op = "ClearHistory")]
  /\ UNCHANGED <<retryConfig, totalRequests, totalErrors, task, chans, ghost,
                 ui, limiter, config, counts>>

\* ClearHistory: the history keeps its first message
ClearHistory ==
  /\ pc = "idle"
  /\ messages' = IF Len(messages) > 0 THEN SubSeq(messages, 1, 1)
                 ELSE messages
  /\ lastOp' = [Called("ClearHistory", messages)
                  EXCEPT !.again = (lastOp.op = "ClearHistory")]
  /\ UNCHANGED <<retryConfig, totalRequests, totalErrors, task, chans, ghost,
                 ui, limiter, config, counts>>

\* SetSystemPrompt(prompt)
SetSystemPrompt(prompt) ==
  /\ pc = "idle"
  /\ messages' = IF Len(messages) > 0 /\ messages[1].role = "system"
                 THEN [messages EXCEPT ![1].content = prompt]
                 ELSE <<Message("system", prompt)>> \o messages
  /\ lastOp' = Called("SetSystemPrompt", messages)
  /\ UNCHANGED <<retryConfig, totalRequests, totalErrors, task, chans, ghost,
                 ui, limiter, config, counts>>

\* a LoadMessages that puts the session in the place of the history
LoadMessagesReplace(loaded) ==
  /\ pc = "idle"
  /\ messages' = loaded
  /\ lastOp' = Called("LoadMessages", messages)
  /\ UNCHANGED <<retryConfig, totalRequests, totalErrors, task, chans, ghost,
                 ui, limiter, config, counts>>

\* LoadMessages(loaded): a session is restored
LoadMessages(loaded) ==
  /\ pc = "idle"
  /\ messages' = IF Len(messages) > 0 /\ messages[1].role = "system"
                 THEN <<messages[1]>> \o loaded
                 ELSE loaded
  /\ lastOp' = Called("LoadMessages", messages)
  /\ UNCHANGED <<retryConfig, totalRequests, totalErrors, task, chans, ghost,
                 ui, limiter, config, counts>>

\* the prompts and the sessions the methods are given
Prompts == { <<Txt("Be brief")>>, <<>> }
Sessions ==
  { <<>>,
    <<Message("user", <<Txt("hi")>>), Message("assistant", <<Txt("hello")>>)>> }

\* what a turn of the client meets: one-call answers throughout and, in its
\* first iterations, a plain answer or a refused key
HistoryResponses(k) == IF k < MaxFreeLoops THEN {RPlain, ROne} ELSE {ROne}
HistoryFailures(k) ==
  IF k < MaxFreeLoops
  THEN { HTTPError(401, <<"invalid", "api", "key">>, <<>>) } ELSE {}

\* the turns of a client, with its methods on the history called between
\* them
NextHistory ==
  \/ \E m \in UserMessages : Chat(m)
  \/ AppendUser
  \/ LoopHead
  \/ LoopExhausted
  \/ \E r \in HistoryResponses(loop) : AttemptOk(Ok(r))
  \/ Parse
  \/ \E o \in HistoryFailures(loop) : AttemptFail(o)
  \/ SendFinal
  \/ AppendFinal
  \/ SendPreamble
  \/ ToolStart
  \/ ToolExec(ToolResult(TRUE, ShortOutput, ""))
  \/ ToolReport
  \/ AppendResults
  \/ CloseErr
  \/ CloseToken
  \/ ClearHistory
  \/ \E prompt \in Prompts : SetSystemPrompt(prompt)
  \/ \E loaded \in Sessions : LoadMessages(loaded)

SpecHistory == Init /\ [][NextHistory]_vars

\* ---------------------------------------------- claims on the history

\* C14: ClearHistory leaves the history as its system message alone, from
\* whatever history it is called on, and a second ClearHistory leaves the
\* history as the first one left it.
ClearHistoryLeavesSystem ==
  lastOp.op = "ClearHistory" =>
    /\ messages = <<lastOp.before[1]>>
    /\ messages[1].role = "system"
    /\ lastOp.again => messages = lastOp.before

\* ClearHistory has been called twice in a row after a turn
ClearHistoryTwiceSeen ==
  /\ lastOp.op = "ClearHistory"
  /\ lastOp.again
  /\ turns >= 1
  /\ messages = <<Message("system", SystemPrompt)>>

HistoryStartsWithSystem ==
  /\ Len(messages) > 0
  /\ messages[1].role = "system"

\* a step of a turn leaves the messages the history had as they were
TurnOnlyAppends ==
  pc # "idle" =>
    /\ Len(messages') >= Len(messages)
    /\ SubSeq(messages', 1, Len(messages)) = messages

\* C15: whatever turns and calls of ClearHistory, SetSystemPrompt and
\* LoadMessages a client has seen, its history is not empty and starts with
\* a system message; and a turn changes the history by appending only.
SystemFirstAndAppendOnly ==
  []HistoryStartsWithSystem /\ [][TurnOnlyAppends]_vars

\* a second turn has appended to a history that was loaded from a session
\* under a system prompt that was set
TurnAppendedToLoadedSeen ==
  /\ turns = 2
  /\ pc = "return"
  /\ turnStart = <<Message("system", <<Txt("Be brief")>>),
                   Message("user", <<Txt("hi")>>),
                   Message("assistant", <<Txt("hello")>>)>>
  /\ Len(messages) > Len(turnStart)

\* ------------------------------------------- callAPI over any body

\* the lines a body is made of
StreamLines ==
  { Data(<<Txt("Hel")>>), Data(<<Txt("lo")>>), Data(<<>>),
    Line("data", <<>>), Line("bad", <<>>), Line("other", <<>>), Done, Blank }

MaxLines == 3

RECURSIVE LinesOf(_)
\* the sequences of n lines
LinesOf(n) ==
  IF n = 0 THEN { <<>> }
  ELSE { Append(ls, l) : ls \in LinesOf(n - 1), l \in StreamLines }

\* the bodies of up to MaxLines lines, of each ending
Bodies ==
  { Body(ls, end) : ls \in UNION { LinesOf(n) : n \in 0..MaxLines },
                    end \in {"newline", "eof", "reset"} }

\* the first turn of a client, about to send its first request
InitStream ==
  /\ messages = <<Message("system", SystemPrompt),
                  Message("user", <<Txt("list files")>>)>>
  /\ retryConfig = DefaultRetryConfig
  /\ totalRequests = 0
  /\ totalErrors = 0
  /\ pc = "call"
  /\ userMessage = <<Txt("list files")>>
  /\ loop = 0
  /\ response = <<>>
  /\ toolCalls = <<>>
  /\ idx = 0
  /\ result = NoResult
  /\ toolResultsContent = <<>>
  /\ backoff = NewBackoff
  /\ lastRequest = <<>>
  /\ tokenChan = <<>>
  /\ errChan = <<>>
  /\ tokenClosed = FALSE
  /\ errClosed = FALSE
  /\ turns = 1
  /\ turnStart = <<Message("system", SystemPrompt)>>
  /\ iters = <<>>
  /\ results = <<>>
  /\ attempts = <<>>
  /\ waits = <<>>
  /\ calls = 1
  /\ trace = <<Step("model", 0, 0)>>
  /\ mark = 0
  /\ failedAt = <<>>
  /\ prevFailed = <<>>
  /\ New
  /\ Load
  /\ NewRateLimiter
  /\ sent = 0
  /\ failed = 0
  /\ statsStart = <<0, 0>>
  /\ lastOp = Called("Chat", turnStart)

NextStream ==
  \/ \E b \in Bodies : AttemptOk(Streamed(b))
  \/ \E b \in Bodies : AttemptFail(Streamed(b))

SpecStream == InitStream /\ [][NextStream]_vars

\* ------------------------------------------------- claims on callAPI

RECURSIVE Contents(_, _)
\* the contents of the "data: " lines of ls from the i-th on, up to the
\* first "data: [DONE]": choices[0].delta.content of each line that parses,
\* in order
Contents(ls, i) ==
  IF i > Len(ls) \/ ls[i].t = "done" THEN <<>>
  ELSE (IF ls[i].t = "data" /\ Len(ls[i].choices) > 0
        THEN ls[i].choices[1] ELSE <<>>) \o Contents(ls, i + 1)

\* the body of the response the call at hand has read
BodyRead == attempts[Len(attempts)].body

\* C20: callAPI returns the contents of the data lines before the first
\* "data: [DONE]" (all of them if there is none), in order, without the
\* lines that do not parse and the empty contents; a last line without a
\* line feed counts, and no line after the sentinel does.
ResponseIsContentsBeforeDone ==
  pc = "called" => response = Contents(BodyRead.lines, 1)

\* ------------------------------------------------------- the limiter

\* the seconds the limiter is watched for after its bucket was first left
\* empty
MaxSeconds == 2

\* the providers a client is made for
Providers == {"groq", "anthropic", "openai", "minimax"}

\* NewClient(cfg) for cfg.Provider = provider, as the program calls it when
\* the provider is switched: a new history, new statistics, a new limiter
NewClient(provider) ==
  /\ pc = "idle"
  /\ messages' = <<Message("system", SystemPrompt)>>
  /\ retryConfig' = DefaultRetryConfig
  /\ totalRequests' = 0
  /\ totalErrors' = 0
  /\ rateLimiter' = LimiterOf(provider)
  /\ clock' = -1
  /\ admitted' = 0
  /\ config' = [config EXCEPT !.Provider = provider]
  /\ lastOp' = Called("NewClient", <<>>)
  /\ UNCHANGED <<task, chans, ghost, ui, counts>>

\* Limiter.advance over one second: limit tokens more, up to burst
Advance(lim) ==
  [lim EXCEPT !.tokens = Min(lim.burst, lim.tokens + lim.limit)]

\* a second passes
Tick ==
  /\ clock < MaxSeconds
  /\ rateLimiter' = Advance(rateLimiter)
  /\ clock' = IF clock < 0 THEN clock ELSE clock + 1
  /\ UNCHANGED <<client, task, chans, ghost, lastOp, ui, admitted, config,
                 counts>>

\* c.rateLimiter.Wait(ctx) returns nil: there was a token and it is taken.
\* With no token in the bucket Wait blocks.
Wait ==
  /\ rateLimiter.tokens >= 1
  /\ admitted <= rateLimiter.limit
  /\ rateLimiter' = [rateLimiter EXCEPT !.tokens = @ - 1]
  /\ clock' = IF clock < 0 /\ rateLimiter.tokens = 1 THEN 0 ELSE clock
  /\ admitted' = IF clock < 0 THEN 0 ELSE admitted + 1
  /\ UNCHANGED <<client, task, chans, ghost, lastOp, ui, config, counts>>

NextLimiter ==
  \/ \E provider \in Providers : NewClient(provider)
  \/ Tick
  \/ Wait

SpecLimiter == Init /\ [][NextLimiter]_vars

\* ------------------------------------------------- claims on the limiter

\* the configured limit of the client's provider
R == rateLimiter.limit

\* C19: the bucket of a provider with limit R holds 2R tokens, and once the
\* first 2R are used at most R calls are admitted in the 60 seconds that
\* follow.
AtMostRAMinuteAfterBurst ==
  /\ rateLimiter.burst = 2 * R
  /\ rateLimiter.tokens <= 2 * R
  /\ (clock >= 0 /\ clock <= 60) => admitted <= R

\* ------------------------------------------- the program and its stream

\* ChatMessage{Role, Content}
ChatMessage(role, content) == [role |-> role, content |-> content]

\* a response with four calls
RFour ==
  CallBlock("list_directory", <<Key("path"), Str(".")>>) \o <<NL>>
    \o CallBlock("read_file", <<Key("path"), Str("main.go")>>) \o <<NL>>
    \o CallBlock("git_status", <<>>) \o <<NL>>
    \o CallBlock("list_directory", <<Key("path"), Str("internal")>>)

\* what the t-th turn of the program meets in its iteration k: the first
\* turn four-call answers throughout and, in its first iterations, a plain
\* answer or a refused key; later turns plain answers and refused keys
StreamResponses(t, k) ==
  IF t > 1 THEN {RPlain}
  ELSE IF k < MaxFreeLoops THEN {RPlain, RFour} ELSE {RFour}
StreamFailures(t, k) ==
  IF t > 1 \/ k < MaxFreeLoops
  THEN { HTTPError(401, <<"invalid", "api", "key">>, <<>>) } ELSE {}

\* Update on the enter key with sendMessage(input): the turn is started and
\* the first poll is scheduled
sendMessage(input) ==
  /\ ~streaming
  /\ ~stopped
  /\ pc = "idle"
  /\ turns < MaxTurns
  /\ Len(messages) <= MaxHistory
  /\ uiMessages' = Append(uiMessages, ChatMessage("user", input))
  /\ streaming' = TRUE
  /\ streamingText' = <<>>
  /\ uiPc' = "tick"
  /\ tokenRead' = 0
  /\ errRead' = 0
  /\ pc' = "spawned"
  /\ userMessage' = input
  /\ tokenChan' = <<>>
  /\ errChan' = <<>>
  /\ tokenClosed' = FALSE
  /\ errClosed' = FALSE
  /\ turns' = turns + 1
  /\ turnStart' = messages
  /\ iters' = <<>>
  /\ results' = <<>>
  /\ attempts' = <<>>
  /\ waits' = <<>>
  /\ calls' = 0
  /\ trace' = <<>>
  /\ prevFailed' = (IF errChan # <<>> THEN <<failedAt>> ELSE <<>>)
  /\ mark' = 0
  /\ lastOp' = Called("Chat", messages)
  /\ UNCHANGED <<client, loop, response, toolCalls, idx, result,
                 toolResultsContent, backoff, lastRequest, failedAt, stopped,
                 abortAt, limiter, config>>
  /\ sent' = 0
  /\ failed' = 0
  /\ statsStart' = <<totalRequests, totalErrors>>

\* Update on checkStreamMsg, its first select: an error that is there is
\* shown and ends the turn for the program; with none there (or the channel
\* closed: a nil error) the poll goes on to the tokens
checkStreamErr ==
  /\ streaming
  /\ ~stopped
  /\ uiPc = "tick"
  /\ IF errRead < Len(errChan)
     THEN /\ errRead' = errRead + 1
          /\ uiMessages' =
               Append(uiMessages, ChatMessage("error", errChan[errRead + 1]))
          /\ streaming' = FALSE
          /\ streamingText' = <<>>
          /\ uiPc' = "idle"
     ELSE /\ uiPc' = "tokens"
          /\ UNCHANGED <<errRead, uiMessages, streaming, streamingText>>
  /\ UNCHANGED <<client, task, chans, ghost, lastOp, tokenRead, stopped,
                 abortAt, limiter, config, counts>>

\* Update on checkStreamMsg, one select of its loop over the tokens: a token
\* is added to the text; a closed channel ends the turn with the text as
\* the assistant's entry; with nothing there the next poll is scheduled
checkStreamToken ==
  /\ streaming
  /\ ~stopped
  /\ uiPc = "tokens"
  /\ IF tokenRead < Len(tokenChan)
     THEN /\ tokenRead' = tokenRead + 1
          /\ streamingText' = streamingText \o tokenChan[tokenRead + 1]
          /\ UNCHANGED <<uiMessages, streaming, uiPc>>
     ELSE IF tokenClosed
     THEN /\ uiMessages' =
               (IF streamingText # <<>>
                THEN Append(uiMessages, ChatMessage("assistant", streamingText))
                ELSE uiMessages)
          /\ streaming' = FALSE
          /\ streamingText' = <<>>
          /\ uiPc' = "idle"
          /\ UNCHANGED tokenRead
     ELSE /\ uiPc' = "tick"
          /\ UNCHANGED <<tokenRead, streamingText, uiMessages, streaming>>
  /\ UNCHANGED <<client, task, chans, ghost, lastOp, errRead, stopped,
                 abortAt, limiter, config, counts>>

\* Update on ctrl+c while a turn streams: tea.Quit.  The program handles no
\* further message, so nothing is received from the channels any more; the
\* task of the turn is not told.  The key is pressed in the first
\* iterations of a turn.
Quit ==
  /\ streaming
  /\ ~stopped
  /\ loop < MaxFreeLoops
  /\ stopped' = TRUE
  /\ abortAt' = <<[steps |-> Len(trace), history |-> messages]>>
  /\ UNCHANGED <<client, task, chans, ghost, lastOp, streaming, uiPc,
                 uiMessages, streamingText, tokenRead, errRead, limiter,
                 config, counts>>

\* a step of the task of the turn
TaskStep ==
  \/ AppendUser
  \/ LoopHead
  \/ LoopExhausted
  \/ \E r \in StreamResponses(turns, loop) : AttemptOk(Ok(r))
  \/ Parse
  \/ \E o \in StreamFailures(turns, loop) : AttemptFail(o)
  \/ SendFinal
  \/ AppendFinal
  \/ SendPreamble
  \/ ToolStart
  \/ ToolExec(ToolResult(TRUE, ShortOutput, ""))
  \/ ToolReport
  \/ AppendResults
  \/ CloseErr
  \/ CloseToken

\* a step of the program
ProgramStep ==
  \/ \E input \in UserMessages : sendMessage(input)
  \/ checkStreamErr
  \/ checkStreamToken
  \/ Quit

NextStreaming == TaskStep \/ ProgramStep

SpecStreaming == Init /\ [][NextStreaming]_vars

\* ------------------------------------------------ claims on the stream

RECURSIVE TurnEntriesFrom(_, _)
\* the entries of the transcript after its last entry of the user
TurnEntriesFrom(es, i) ==
  IF i = 0 \/ es[i].role = "user" THEN <<>>
  ELSE Append(TurnEntriesFrom(es, i - 1), es[i])

TurnEntries == TurnEntriesFrom(uiMessages, Len(uiMessages))

ErrorEntries == { i \in 1..Len(TurnEntries) : TurnEntries[i].role = "error" }

\* C16: when the task has ended the turn by sending an error on errChan,
\* the program, however its poll interleaves with the send and the two
\* closes, ends the turn with exactly one error entry in the transcript; it
\* does not end the turn as completed with the error unread.
SentErrorIsShownOnce ==
  (turns >= 1 /\ ~streaming /\ errChan # <<>>) =>
    /\ errRead = 1
    /\ Cardinality(ErrorEntries) = 1
    /\ TurnEntries[Len(TurnEntries)] = ChatMessage("error", errChan[1])

\* C18: after the abort of a turn in flight is asked, the task starts no
\* model call and no tool execution, and the history stays as it was when
\* the abort was asked.
NothingStartsAfterAbort ==
  abortAt # <<>> =>
    /\ \A i \in (abortAt[1].steps + 1)..Len(trace) :
         trace[i].op \notin {"model", "exec"}
    /\ messages = abortAt[1].history

\* the sends on tokenChan the next step of the task makes
SendsNext ==
  CASE pc = "loop" /\ loop >= maxToolLoops -> 1
    [] pc = "respond" /\ Len(toolCalls) = 0 -> 1
    [] pc = "respond" /\ Len(toolCalls) # 0 ->
         IF cleanThinkBlocks(RemoveToolCalls(response)) # <<>> THEN 1 ELSE 0
    [] pc = "toolStart" -> 1
    [] pc = "toolReport" -> Len(ResultEvents(toolCalls[idx], result))
    [] OTHER -> 0

\* the task stands at a send that tokenChan has no room for, and nothing is
\* received from tokenChan any more
SendBlocked == stopped /\ SendsNext > 0 /\ ~CanSend(SendsNext)

\* no step gets the task out of such a state: the send never completes
BlockedStaysBlocked == [][SendBlocked => SendBlocked']_vars

\* C17: no send of the task blocks for ever on tokenChan, however many
\* events the turn sends and even when nothing is received any more: the
\* task is never at a send that can not complete.
NoSendBlocksForEver == ~SendBlocked

\* ------------------------------------ the program's keys and commands

\* the names in DefaultProviders
DefaultProviders ==
  {"minimax", "openai", "anthropic", "google", "groq", "deepseek",
   "openrouter", "ollama"}

\* Config.SwitchProvider(name): whether the name was known, and the
\* configuration after it
SwitchProvider(cfg, name) ==
  IF name \notin DefaultProviders THEN [ok |-> FALSE, config |-> cfg]
  ELSE [ok |-> TRUE, config |-> [cfg EXCEPT !.Provider = name]]

\* a ctrl+l that is also handled while a turn streams
ctrlLWhileStreaming ==
  /\ ~stopped
  /\ uiMessages' = <<>>
  /\ messages' = IF Len(messages) > 0 THEN SubSeq(messages, 1, 1)
                 ELSE messages
  /\ lastOp' = [Called("ClearHistory", messages)
                  EXCEPT !.again = (lastOp.op = "ClearHistory")]
  /\ UNCHANGED <<retryConfig, totalRequests, totalErrors, task, chans, ghost,
                 streaming, uiPc, streamingText, tokenRead, errRead, stopped,
                 abortAt, limiter, config, counts>>

\* Update on ctrl+l, which is handled when no turn streams: the transcript
\* is emptied and m.client.ClearHistory() is called
ctrlL ==
  /\ ~streaming
  /\ ~stopped
  /\ uiMessages' = <<>>
  /\ messages' = IF Len(messages) > 0 THEN SubSeq(messages, 1, 1)
                 ELSE messages
  /\ lastOp' = [Called("ClearHistory", messages)
                  EXCEPT !.again = (lastOp.op = "ClearHistory")]
  /\ UNCHANGED <<retryConfig, totalRequests, totalErrors, task, chans, ghost,
                 streaming, uiPc, streamingText, tokenRead, errRead, stopped,
                 abortAt, limiter, config, counts>>

\* what the transcript shows of a switch
Switched(name) ==
  ChatMessage("system", <<Txt("Switched to provider"), Txt(name)>>)
UnknownProvider(name) ==
  ChatMessage("error", <<Txt("Unknown provider"), Txt(name)>>)

\* a /provider that hands the history of the old client to the new one
providerCommandKeepsHistory(name) ==
  /\ ~streaming
  /\ ~stopped
  /\ LET sw == SwitchProvider(config, name)
     IN  IF sw.ok
         THEN /\ config' = sw.config
              /\ retryConfig' = DefaultRetryConfig
              /\ totalRequests' = 0
              /\ totalErrors' = 0
              /\ rateLimiter' = LimiterOf(sw.config.Provider)
              /\ clock' = -1
              /\ admitted' = 0
              /\ lastOp' = Called("NewClient", <<>>)
              /\ uiMessages' = Append(uiMessages, Switched(name))
              /\ UNCHANGED messages
         ELSE /\ uiMessages' = Append(uiMessages, UnknownProvider(name))
              /\ UNCHANGED <<client, limiter, config, lastOp>>
  /\ UNCHANGED <<task, chans, ghost, counts, streaming, uiPc, streamingText,
                 tokenRead, errRead, stopped, abortAt>>

\* handleCommand on "/provider name", which is handled when no turn streams:
\* with a known name the configuration is switched and m.client becomes
\* NewClient(m.config); with an unknown one an error is shown
providerCommand(name) ==
  /\ ~streaming
  /\ ~stopped
  /\ LET sw == SwitchProvider(config, name)
     IN  IF sw.ok
         THEN /\ config' = sw.config
              /\ messages' = <<Message("system", SystemPrompt)>>
              /\ retryConfig' = DefaultRetryConfig
              /\ totalRequests' = 0
              /\ totalErrors' = 0
              /\ rateLimiter' = LimiterOf(sw.config.Provider)
              /\ clock' = -1
              /\ admitted' = 0
              /\ lastOp' = Called("NewClient", <<>>)
              /\ uiMessages' = Append(uiMessages, Switched(name))
         ELSE /\ uiMessages' = Append(uiMessages, UnknownProvider(name))
              /\ UNCHANGED <<client, limiter, config, lastOp>>
  /\ UNCHANGED <<task, chans, ghost, counts, streaming, uiPc, streamingText,
                 tokenRead, errRead, stopped, abortAt>>

\* /provider is given while the transcript has fewer entries than this
MaxShown == 4

\* the names /provider is given
ProviderNames == {"groq", "acme"}

\* what the t-th turn of the program meets in its iteration k: the first
\* turn a plain or a one-call answer in its first iterations and a plain
\* answer later, or a refused key; later turns plain answers
ProgramResponses(t, k) ==
  IF t = 1 /\ k < MaxFreeLoops THEN {RPlain, ROne} ELSE {RPlain}
ProgramFailures(t, k) ==
  IF t = 1 /\ k <= MaxFreeLoops
  THEN { HTTPError(401, <<"invalid", "api", "key">>, <<>>) } ELSE {}

\* the program with its keys and commands, and the task of its turn
NextProgram ==
  \/ \E input \in UserMessages : sendMessage(input)
  \/ checkStreamErr
  \/ checkStreamToken
  \/ ctrlL
  \/ \E name \in ProviderNames :
       Len(uiMessages) < MaxShown /\ providerCommand(name)
  \/ AppendUser
  \/ LoopHead
  \/ \E r \in ProgramResponses(turns, loop) : AttemptOk(Ok(r))
  \/ Parse
  \/ \E o \in ProgramFailures(turns, loop) : AttemptFail(o)
  \/ SendFinal
  \/ AppendFinal
  \/ SendPreamble
  \/ ToolStart
  \/ ToolExec(ToolResult(TRUE, ShortOutput, ""))
  \/ ToolReport
  \/ AppendResults
  \/ CloseErr
  \/ CloseToken

SpecProgram == Init /\ [][NextProgram]_vars

\* ----------------------------------------------- claims on the program

\* the task has made the last change of the history it makes in the turn
TaskLeftHistory == pc \in {"idle", "return", "closing"}

\* while a turn streams the program calls no method of the client and does
\* not replace it
NoCallWhileStreaming == streaming => lastOp' = lastOp

\* C21: while m.streaming is true the program starts no Chat, calls no
\* ClearHistory and does not replace the client; and m.streaming is false
\* only when the task of the turn has made its last change of the history:
\* the history is never changed by the task and by the program at once.
OneTurnInFlight ==
  [](~streaming => TaskLeftHistory) /\ [][NoCallWhileStreaming]_vars

\* a turn has ended for the program with an error while its task had not
\* yet closed the channels, and ctrl+l has cleared the history then
ClearedWhileTaskClosesSeen ==
  /\ ~streaming
  /\ turns = 1
  /\ pc = "closing"
  /\ errRead = 1
  /\ lastOp.op = "ClearHistory"

\* the client is as NewClient makes it for the provider of the configuration
NewForProvider ==
  /\ messages = <<Message("system", SystemPrompt)>>
  /\ rateLimiter = LimiterOf(config.Provider)
  /\ totalRequests = 0
  /\ totalErrors = 0

\* the transcript's last entry of the user, 0 when it has none
LastUserEntry ==
  LET us == { i \in 1..Len(uiMessages) : uiMessages[i].role = "user" }
  IN  IF us = {} THEN 0 ELSE CHOOSE i \in us : \A j \in us : j <= i

\* right after a switch the client is new; the turn that follows a switch
\* began on the system message alone; and the limiter is always the one of
\* the provider of the configuration
SwitchedClientIsNew ==
  /\ rateLimiter.limit = getRateLimitForProvider(config.Provider)
  /\ rateLimiter.burst = 2 * rateLimiter.limit
  /\ (uiMessages # <<>> /\ uiMessages[Len(uiMessages)].role = "system")
       => /\ uiMessages[Len(uiMessages)] = Switched(config.Provider)
          /\ NewForProvider
  /\ (LastUserEntry > 1 /\ uiMessages[LastUserEntry - 1].role = "system")
       => turnStart = <<Message("system", SystemPrompt)>>

\* a /provider with a name that is not known shows its error and leaves the
\* configuration, the client and its limiter as they were
UnknownNameChangesNothing ==
  (\E name \in ProviderNames \ DefaultProviders :
     uiMessages' = Append(uiMessages, UnknownProvider(name)))
    => UNCHANGED <<config, client, limiter, lastOp>>

\* C22: after /provider with a known name the configuration names the new
\* provider and the turns that follow run on a new client, whose limiter is
\* built from the new provider's limit and whose history is the system
\* message alone; /provider with an unknown name leaves the configuration,
\* the client and its history unchanged.
SwitchMakesNewClient ==
  []SwitchedClientIsNew /\ [][UnknownNameChangesNothing]_vars

\* after a turn that left a conversation in the history, an unknown name
\* was refused and the provider was switched; the second turn has run on
\* the new client
TurnOnSwitchedClientSeen ==
  /\ turns = 2
  /\ pc = "return"
  /\ config.Provider = "groq"
  /\ rateLimiter.limit = 30
  /\ turnStart = <<Message("system", SystemPrompt)>>
  /\ Len(messages) = 3
  /\ \E i \in 1..Len(uiMessages) : uiMessages[i] = UnknownProvider("acme")
  /\ \E i \in 1..Len(uiMessages) :
       uiMessages[i] = ChatMessage("assistant", RPlain)

\* ----------------------------------- the catalog and the dispatcher

\* the case labels of the switch of ExecuteTool
CaseLabels ==
  {"read_file", "write_file", "edit_file", "list_directory",
   "create_directory", "delete_file", "copy_file", "move_file",
   "find_files", "grep_files", "code_search", "find_todos", "count_lines",
   "analyze_code", "project_tree", "run_command", "git_status", "git_diff",
   "git_log", "git_branch", "git_add", "git_commit", "git_push", "git_pull",
   "web_search", "fetch_url", "get_cwd", "change_directory", "system_info"}

\* the names the system prompt tells the model
PromptNames == { GetToolsPrompt[d].name : d \in 1..Len(GetToolsPrompt) }

\* the calls the model makes: of every name it was told, of every name the
\* dispatcher has a case for, and of names neither has; each with a path
CatalogResponses ==
  { <<Txt("On it."), NL>> \o CallBlock(n, <<Key("path"), Str("main.go")>>) :
      n \in ToolNames \cup PromptNames \cup CaseLabels
              \cup {"frobnicate", "read", ""} }

\* the first model call of a first turn answers with one call, which is
\* executed and reported
NextCatalog ==
  \/ \E m \in UserMessages : Chat(m) /\ turns = 0
  \/ AppendUser
  \/ LoopHead /\ loop = 0
  \/ \E r \in CatalogResponses : AttemptOk(Ok(r))
  \/ Parse
  \/ SendPreamble
  \/ ToolStart
  \/ ToolExec(ToolResult(TRUE, ShortOutput, ""))
  \/ ToolReport

SpecCatalog == Init /\ [][NextCatalog]_vars

\* ExecuteTool found no case for the call
UnknownTool(call, res) ==
  /\ ~res.success
  /\ res.error = "unknown tool: " \o call.name

\* C23: the names GetToolDefinitions returns, which are the names
\* GetToolsPrompt writes into the system prompt, are the names ExecuteTool
\* has a case for: a call of a listed name is never answered "unknown
\* tool", and a call that is not answered so has a listed name.
ListedAreTheDispatched ==
  /\ ToolNames = PromptNames
  /\ \A i \in 1..Len(results) :
       (results[i].call.name \in PromptNames)
         <=> ~UnknownTool(results[i].call, results[i].result)

\* the last tool of the catalog was called and has run
LastListedToolRanSeen ==
  /\ pc = "appendResults"
  /\ Len(results) = 1
  /\ results[1].call.name = "system_info"
  /\ results[1].op = "GetSystemInfo"
  /\ results[1].result.success

\* ------------------------------------------ the model calls of a turn

\* what the iteration k of a turn meets: one-call answers in the first
\* iterations and a plain answer after them; an overloaded provider or a
\* refused key up to the iteration after these
BudgetResponses(k) == IF k < MaxFreeLoops THEN {ROne} ELSE {RPlain}
BudgetFailures(k) ==
  IF k <= MaxFreeLoops
  THEN { HTTPError(503, <<"overloaded">>, <<>>),
         HTTPError(401, <<"invalid", "api", "key">>, <<>>) }
  ELSE {}

\* a client given a policy, and its first turn
NextBudget ==
  \/ \E cfg \in RetryConfigs : SetRetryConfig(cfg)
  \/ \E m \in UserMessages : Chat(m) /\ turns = 0
  \/ AppendUser
  \/ LoopHead
  \/ \E r \in BudgetResponses(loop) : AttemptOk(Ok(r))
  \/ Parse
  \/ \E o \in BudgetFailures(loop) : AttemptRetry(o)
  \/ \E o \in BudgetFailures(loop) : AttemptFail(o)
  \/ SendFinal
  \/ AppendFinal
  \/ SendPreamble
  \/ ToolStart
  \/ ToolExec(ToolResult(TRUE, ShortOutput, ""))
  \/ ToolReport
  \/ AppendResults
  \/ CloseErr
  \/ CloseToken

SpecBudget == Init /\ [][NextBudget]_vars

\* C24: the retries are counted for each model call: a call begins with its
\* counter at 0 however many retries the turn has used, it gives up on
\* retryable failures only with its (max_retries + 1)-th attempt, and when
\* it has given up the turn has sent one error and runs no further
\* iteration.
BudgetIsPerCall ==
  LET n == Len(attempts)
      m == retryConfig.MaxRetries
  IN  /\ backoff.retries = Len(waits)
      /\ (pc = "call" /\ n = 0) => backoff = NewBackoff
      /\ n <= m + 1
      /\ pc = "call" => Len(waits) = n
      /\ (errChan # <<>> /\ isRetryableError(errChan[1])) =>
            /\ n = m + 1
            /\ Len(waits) = m
      /\ errChan # <<>> =>
            /\ Len(errChan) = 1
            /\ pc \in {"return", "closing", "idle"}
            /\ calls = loop + 1
            /\ trace[Len(trace)] = Step("error", loop, 0)

\* the call of the second iteration has given up after its four attempts,
\* in a turn whose first call had used three retries itself
SecondCallSpentItsBudgetSeen ==
  /\ retryConfig.MaxRetries = 3
  /\ loop = 1
  /\ Len(attempts) = 4
  /\ sent = 8
  /\ failed = 7
  /\ errChan # <<>>
  /\ pc = "return"

\* the tokens of the limiter the turn has acquired: c.rateLimiter.Wait is
\* called once at the head of each iteration, before callAPIWithRetry, and
\* nowhere else
Acquired == calls

\* C25: in a turn the requests sent to the provider, retried attempts
\* included, never outnumber the tokens acquired from the limiter.
RequestsWithinAcquired == sent <= Acquired

\* the turn has ended: its task is at its return or past it
TurnOver == turns >= 1 /\ pc \in {"return", "closing", "idle"}

\* C26: over a turn TotalRequests grows by the number of transport attempts
\* the turn made, retried attempts included, and TotalErrors by the number
\* of them that failed; during the turn neither counter is below its value
\* at the start of the turn.
StatsCountEveryAttempt ==
  /\ totalRequests >= statsStart[1]
  /\ totalErrors >= statsStart[2]
  /\ TurnOver =>
       /\ totalRequests - statsStart[1] = sent
       /\ totalErrors - statsStart[2] = failed

RECURSIVE ReceivedText(_)
\* the text of the first n values of tokenChan
ReceivedText(n) ==
  IF n = 0 THEN <<>> ELSE ReceivedText(n - 1) \o tokenChan[n]

\* the turn has ended for the program with the error of errChan shown
EndedWithErrorShown ==
  /\ ~streaming
  /\ errRead = 1
  /\ \E i \in 1..Len(TurnEntries) :
       TurnEntries[i] = ChatMessage("error", errChan[1])

\* C27: what the program has received of a turn is not taken back: when the
\* turn ends with an error, the text and the tool indicators received
\* before it are in the transcript together with the error entry.
ReceivedStaysShown ==
  (EndedWithErrorShown /\ tokenRead > 0) =>
    \E j \in 1..Len(TurnEntries) :
      TurnEntries[j] = ChatMessage("assistant", ReceivedText(tokenRead))

\* ------------------------------------------------ a turn runs to its end

\* what the iteration k of the turn meets: a four-call answer to a first
\* attempt and, in the first iterations, a plain answer, an overloaded
\* provider or a refused key
TurnResponses(k) ==
  (IF attempts = <<>> THEN {RFour} ELSE {})
    \cup (IF k < MaxFreeLoops THEN {RPlain} ELSE {})
TurnFailures(k) ==
  IF k < MaxFreeLoops
  THEN { HTTPError(503, <<"overloaded">>, <<>>),
         HTTPError(401, <<"invalid", "api", "key">>, <<>>) }
  ELSE {}

\* a transport attempt returns
Attempt ==
  \/ \E r \in TurnResponses(loop) : AttemptOk(Ok(r))
  \/ \E o \in TurnFailures(loop) : AttemptRetry(o)
  \/ \E o \in TurnFailures(loop) : AttemptFail(o)

\* the steps of the task between its transport attempts, but for Parse and
\* SendPreamble
Proceed ==
  \/ AppendUser
  \/ LoopHead
  \/ LoopExhausted
  \/ SendFinal
  \/ AppendFinal
  \/ ToolStart
  \/ ToolExec(ToolResult(TRUE, ShortOutput, ""))
  \/ ToolReport
  \/ AppendResults
  \/ CloseErr
  \/ CloseToken

\* the program's poll of the channels
Poll == checkStreamErr \/ checkStreamToken

NextTurn ==
  \/ \E input \in UserMessages : sendMessage(input) /\ turns = 0
  \/ Attempt
  \/ Parse
  \/ SendPreamble
  \/ Proceed
  \/ Poll

\* SendPreamble can be taken
SendPreambleEnabled ==
  /\ pc = "respond"
  /\ Len(toolCalls) # 0
  /\ cleanThinkBlocks(RemoveToolCalls(response)) # <<>> => CanSend(1)

\* the first turn of the program where every transport attempt and every
\* tool execution returns, the task runs on whenever it can (the goroutine
\* is scheduled) and the program keeps polling while the turn streams (the
\* tick of checkStreamMsg is delivered).  For Parse and SendPreamble weak
\* fairness is written out, with what enables them: pc = "called" for Parse
FairTurn ==
  /\ Init
  /\ [][NextTurn]_vars
  /\ WF_vars(Attempt)
  /\ WF_vars(Proceed)
  /\ WF_vars(Poll)
  /\ ([]<>(pc # "called") \/ []<><<Parse>>_vars)
  /\ ([]<>(~SendPreambleEnabled) \/ []<><<SendPreamble>>_vars)

\* the turn is over with both channels closed, after its final answer, its
\* notice or its error
TurnClosed ==
  /\ pc = "idle"
  /\ tokenClosed
  /\ errClosed
  /\ \/ errChan # <<>>
     \/ /\ tokenChan # <<>>
        /\ trace[Len(trace)].op \in {"final", "warn"}

\* C28: when every transport attempt and every tool execution returns and
\* the channel of the events keeps being drained, a turn that Chat has
\* started comes to its end, completed or failed, with tokenChan and
\* errChan closed; it has then run at most 10 iterations and made at most
\* 10 * (max_retries + 1) transport attempts.
TurnRunsToItsEnd ==
  /\ [](/\ loop <= maxToolLoops
        /\ calls <= maxToolLoops
        /\ sent <= maxToolLoops * (retryConfig.MaxRetries + 1))
  /\ (pc = "spawned") ~> TurnClosed

\* the turn has ended on the notice after ten iterations of four calls,
\* which are more events than tokenChan holds, and all were received
LongTurnClosedSeen ==
  /\ TurnClosed
  /\ loop = 10
  /\ calls = 10
  /\ sent = 10
  /\ Len(tokenChan) > TokenCapacity
  /\ tokenRead = Len(tokenChan)
  /\ ~streaming

\* ------------------------------------- what is kept and what is shown

\* outputs of 800 bytes, of 801 bytes and of none
ExactOutput == <<Chunk("a"), Chunk("b")>>
OverOutput == <<Chunk("a"), Chunk("b"), Txt("c")>>
NoOutput == <<>>

\* what the operation behind a tool returns
PreviewReturns ==
  { ToolResult(TRUE, o, "") :
      o \in {NoOutput, ShortOutput, ExactOutput, OverOutput, LongOutput} }
    \cup { ToolResult(FALSE, LongOutput, "exit status 1") }

\* the answers with calls: a listing, a file read, a command, and the
\* three calls
PreviewResponses ==
  { ROne,
    CallBlock("read_file", <<Key("path"), Str("main.go")>>),
    CallBlock("run_command", <<Key("command"), Str("ls")>>),
    RMany }

\* the first iteration of a first turn, its calls executed and fed back
NextPreview ==
  \/ \E m \in UserMessages : Chat(m) /\ turns = 0
  \/ AppendUser
  \/ LoopHead /\ loop = 0
  \/ \E r \in PreviewResponses : AttemptOk(Ok(r))
  \/ Parse
  \/ SendPreamble
  \/ ToolStart
  \/ \E ret \in PreviewReturns : ToolExec(ret)
  \/ ToolReport
  \/ AppendResults

SpecPreview == Init /\ [][NextPreview]_vars

\* the block that holds the whole output of a result
WholeBlock(r) ==
  <<L("result_open", r.call.name), NL>>
    \o (IF r.result.success THEN <<>>
        ELSE <<Txt("Error: " \o r.result.error)>>
               \o (IF r.result.output # <<>> THEN <<NL, Txt("Output: ")>>
                   ELSE <<>>))
    \o r.result.output \o <<NL, L("result_close", "")>>

\* the text between the fences of an event
Fenced(tok) == SubSeq(tok, 3, Len(tok) - 3)

\* the result that was reported last, and the events sent for it
Reported == results[Len(results)]
ReportedJust ==
  /\ results # <<>>
  /\ trace[Len(trace)] = Step("report", loop, Len(results))

FinalTextHasNoMarkup ==
  NoCallsAnswered =>
    \A i \in 1..Len(LastToken) : LastToken[i] \notin {OPEN, CLOSE}

====
